---------------------------- MODULE Spec2Model ----------------------------
(***************************************************************************)
(* A model of the falling-sand simulation core of src/main.c: the grid,    *)
(* the particle registry (add_particle), the per-material update rules,    *)
(* the frame scan of main's loop and the Bresenham stroke particle_line.   *)
(*                                                                         *)
(* Conventions                                                             *)
(*  - The cell buffer grid->arr is a function from 0..N-1 (the flat index  *)
(*    y*width + x) to particle records; the fields keep the C names.       *)
(*  - life_time is a 32-bit float in the source.  The model keeps it as    *)
(*    the bit pattern of the float (sign, 8 exponent bits, 23 fraction     *)
(*    bits) read as an integer, negated for a negative float: the order of *)
(*    these integers is the order of the floats.  The int-to-float         *)
(*    conversion, the division and the subtraction of a decay draw are     *)
(*    computed on the bit patterns with the rounding of the source (to     *)
(*    nearest, ties to even).  Zero and normal floats are represented.     *)
(*  - color is a render hint that no rule reads; it is not modelled, and   *)
(*    neither is the rand() % 4 that update_fire spends on it.             *)
(*  - rand() is an input of each action: the draws are chosen with \E.     *)
(*  - get_particle does no bounds check.  A read whose flat index falls    *)
(*    inside the buffer returns the aliased cell (the last cell of the     *)
(*    previous row for x = -1).  A read whose index falls outside the      *)
(*    buffer is undefined behaviour: it returns the material `wild', an    *)
(*    input of the action that ranges over a burning and a non-burning     *)
(*    value, or, when the index is negative, it kills the process.         *)
(*  - Calling an update_func that points at no rule kills the process      *)
(*    too.  A killed process is at pc = "crashed" and takes no step.       *)
(*  - runs is instrumentation: the number of times the behaviour rule of   *)
(*    the particle was invoked in the current Simulate pass.  It travels   *)
(*    with the particle in swap_particles and is cleared by the Reset      *)
(*    scan.  before, last, frame and bad_access are instrumentation too.   *)
(***************************************************************************)
EXTENDS Integers, Sequences, FiniteSets, TLC

VARIABLES
    grid,        \* grid->arr: [0..N-1 -> particle]
    pc,          \* "input" between frames, "simulate" inside the scan,
                 \* "crashed" once the process is killed
    pos,         \* flat index of the next cell of the Simulate scan
    curr_mat,    \* main's selected drawing material
    frame,       \* number of completed frames
    before,      \* the grid when the last operation (or frame) started
    last,        \* the last API operation and its arguments
    bad_access   \* some buffer access used coordinates outside the grid

vars == <<grid, pc, pos, curr_mat, frame, before, last, bad_access>>

(***************************** bounds **************************************)
\* Grid width and height (main uses 256 x 256).
W == 3
H == 3
\* Non-Empty cells of an initial grid of a stepping specification.
MaxParticles == 1

\* Frames an all-Empty grid is stepped for.
MaxIdleFrames == 12

N == W * H
Cells == 0 .. (N - 1)

(************************* enumerations ************************************)
MAT_EMPTY == 0
MAT_SAND  == 1
MAT_WATER == 2
MAT_SMOKE == 3
MAT_OIL   == 4
MAT_WALL  == 5
MAT_WOOD  == 6
MAT_FIRE  == 7
MAT_FLAME == 8
MAT_COUNT == 9

ELEM_EMPTY  == 0
ELEM_STATIC == 1
ELEM_SOLID  == 2
ELEM_LIQUID == 3
ELEM_GAS    == 4

\* Initial life_time of add_particle's registry: the floats 3.0f, 3.0f, 7.5f,
\* 8.0f and 1.5f.
LIFE_SMOKE == 1077936128
LIFE_OIL   == 1077936128
LIFE_WOOD  == 1089470464
LIFE_FIRE  == 1090519040
LIFE_FLAME == 1069547520

\* The largest value of rand().
RAND_MAX == 2147483647

\* The K of (float)rand() / (float)(RAND_MAX / K): the floats 0.1f, 0.15f
\* and 0.25f.
K_SMOKE == 1036831949
K_FIRE  == 1041865114
K_FLAME == 1048576000

\* rand() % n of the ignition and smoke rolls.
OIL_ROLL   == 4
WOOD_ROLL  == 2
SMOKE_ROLL == 5

Materials == MAT_SAND .. MAT_FLAME

(******************************* floats ************************************)
\* The operations on floats are functions of the bit patterns.

\* The weight of the hidden bit of a significand.
Hidden == 2 ^ 23

\* The position of the highest bit of n (n < 2^31), found by halving the
\* range of positions.
Log2(n) ==
    LET b4 == IF n >= 2 ^ 16 THEN 16 ELSE 0
        b3 == IF n \div (2 ^ b4) >= 2 ^ 8 THEN b4 + 8 ELSE b4
        b2 == IF n \div (2 ^ b3) >= 2 ^ 4 THEN b3 + 4 ELSE b3
        b1 == IF n \div (2 ^ b2) >= 2 ^ 2 THEN b2 + 2 ELSE b2
    IN  IF n \div (2 ^ b1) >= 2 THEN b1 + 1 ELSE b1

\* The biased exponent and the 24-bit significand of a positive float b, and
\* the float of biased exponent e and significand m (a significand of 2^24
\* carries into the exponent).
ExpOf(b) == b \div Hidden
ManOf(b) == Hidden + (b % Hidden)
Pack(e, m) == e * Hidden + (m - Hidden)

\* n shifted right by s bits; a bit shifted out is kept in the lowest bit.
ShiftJam[n \in Int, s \in Int] ==
    IF s > 30 THEN (IF n > 0 THEN 1 ELSE 0)
    ELSE LET q == n \div (2 ^ s)
         IN  IF n % (2 ^ s) > 0 /\ q % 2 = 0 THEN q + 1 ELSE q

\* The float nearest to sig * 2^(e - 150), ties to the even significand.
RoundPack[sig \in Int, e \in Int] ==
    LET k    == Log2(sig)
        s    == k - 23
        q    == sig \div (2 ^ s)
        rem  == sig % (2 ^ s)
        half == 2 ^ (s - 1)
    IN  IF k <= 23 THEN Pack(e - (23 - k), sig * (2 ^ (23 - k)))
        ELSE IF rem > half \/ (rem = half /\ q % 2 = 1)
          THEN Pack(e + s, q + 1)
        ELSE Pack(e + s, q)

\* (float)r for an int r >= 0.
i2f[r \in Int] == IF r = 0 THEN 0 ELSE RoundPack[r, 150]

\* 26 more bits of the quotient q of two significands, rem the remainder so
\* far, seven bits at a time; a remainder left at the end is kept in the
\* lowest bit.
LongDiv[rem \in Int, mb \in Int, q \in Int] ==
    LET a1 == 128 * rem
        a2 == 128 * (a1 % mb)
        a3 == 128 * (a2 % mb)
        a4 == 32 * (a3 % mb)
        qq == 32 * (128 * (128 * (128 * q + a1 \div mb) + a2 \div mb)
                      + a3 \div mb) + a4 \div mb
    IN  IF a4 % mb > 0 /\ qq % 2 = 0 THEN qq + 1 ELSE qq

\* The float a / b for floats a >= 0 and b > 0.
fdiv[a \in Int, b \in Int] ==
    IF a = 0 THEN 0
    ELSE LET ma == ManOf(a)
             mb == ManOf(b)
             q0 == IF ma >= mb THEN 1 ELSE 0
         IN  RoundPack[LongDiv[ma - q0 * mb, mb, q0],
                       ExpOf(a) - ExpOf(b) + 124]

\* The floats a + b and a - b for positive floats a >= b, computed with
\* three more bits than the significand holds.
AddMag[a \in Int, b \in Int] ==
    RoundPack[8 * ManOf(a) + ShiftJam[8 * ManOf(b), ExpOf(a) - ExpOf(b)],
              ExpOf(a) - 3]

SubMag[a \in Int, b \in Int] ==
    RoundPack[8 * ManOf(a) - ShiftJam[8 * ManOf(b), ExpOf(a) - ExpOf(b)],
              ExpOf(a) - 3]

Mag(a) == IF a < 0 THEN -a ELSE a

\* The float l - d of two floats.
fsub[l \in Int, d \in Int] ==
    IF d = 0 THEN l
    ELSE IF l = 0 THEN -d
    ELSE IF (l < 0) # (d < 0)
      THEN (IF l < 0 THEN -1 ELSE 1)
             * (IF Mag(l) >= Mag(d) THEN AddMag[Mag(l), Mag(d)]
                ELSE AddMag[Mag(d), Mag(l)])
    ELSE IF Mag(l) = Mag(d) THEN 0
    ELSE IF Mag(l) > Mag(d)
      THEN (IF l < 0 THEN -1 ELSE 1) * SubMag[Mag(l), Mag(d)]
    ELSE (IF l < 0 THEN 1 ELSE -1) * SubMag[Mag(d), Mag(l)]

\* The divisors (float)(RAND_MAX / K) of the decay draws.
DIV_SMOKE == fdiv[i2f[RAND_MAX], K_SMOKE]
DIV_FIRE  == fdiv[i2f[RAND_MAX], K_FIRE]
DIV_FLAME == fdiv[i2f[RAND_MAX], K_FLAME]

\* The decay draw (float)rand() / (float)(RAND_MAX / K) for rand() = r and
\* the divisor den.
draw(r, den) == fdiv[i2f[r], den]

\* The largest decay draws.
DECAY_SMOKE == draw(RAND_MAX, DIV_SMOKE)
DECAY_FIRE  == draw(RAND_MAX, DIV_FIRE)
DECAY_FLAME == draw(RAND_MAX, DIV_FLAME)

(***************************** particles ***********************************)
\* Vector2 {0.0f, 0.0f}
ZeroVel == <<0, 0>>

\* The particle clear_grid and remove_particle write.
empty_particle ==
    [mat_type |-> MAT_EMPTY, elem_type |-> ELEM_EMPTY, life_time |-> 0,
     velocity |-> ZeroVel, has_been_updated |-> FALSE,
     update_func |-> "update_empty", runs |-> 0]

\* Mutant: add_particle hands over a particle whose flag is already set.
new_particle_flagged(m, junk) ==
    LET mk(e, l, f) == [mat_type |-> m, elem_type |-> e, life_time |-> l,
                        velocity |-> ZeroVel, has_been_updated |-> TRUE,
                        update_func |-> f, runs |-> 0]
    IN  CASE m = MAT_SAND  -> mk(ELEM_SOLID,  0,          "update_sand")
          [] m = MAT_WATER -> mk(ELEM_LIQUID, 0,          "update_water")
          [] m = MAT_SMOKE -> mk(ELEM_GAS,    LIFE_SMOKE, "update_smoke")
          [] m = MAT_OIL   -> mk(ELEM_LIQUID, LIFE_OIL,   "update_oil")
          [] m = MAT_WALL  -> mk(ELEM_STATIC, 0,          "update_wall")
          [] m = MAT_WOOD  -> mk(ELEM_STATIC, LIFE_WOOD,  "update_wood")
          [] m = MAT_FIRE  -> mk(ELEM_SOLID,  LIFE_FIRE,  "update_fire")
          [] m = MAT_FLAME -> mk(ELEM_GAS,    LIFE_FLAME, "update_flame")
          [] OTHER         -> mk(junk.elem_type, junk.life_time,
                                 junk.update_func)

\* The local `part' of add_particle after its switch.  The default branch
\* leaves elem_type, life_time and update_func uninitialized: they take the
\* values of `junk'.
new_particle(m, junk) ==
    LET mk(e, l, f) == [mat_type |-> m, elem_type |-> e, life_time |-> l,
                        velocity |-> ZeroVel, has_been_updated |-> FALSE,
                        update_func |-> f, runs |-> 0]
    IN  CASE m = MAT_SAND  -> mk(ELEM_SOLID,  0,          "update_sand")
          [] m = MAT_WATER -> mk(ELEM_LIQUID, 0,          "update_water")
          [] m = MAT_SMOKE -> mk(ELEM_GAS,    LIFE_SMOKE, "update_smoke")
          [] m = MAT_OIL   -> mk(ELEM_LIQUID, LIFE_OIL,   "update_oil")
          [] m = MAT_WALL  -> mk(ELEM_STATIC, 0,          "update_wall")
          [] m = MAT_WOOD  -> mk(ELEM_STATIC, LIFE_WOOD,  "update_wood")
          [] m = MAT_FIRE  -> mk(ELEM_SOLID,  LIFE_FIRE,  "update_fire")
          [] m = MAT_FLAME -> mk(ELEM_GAS,    LIFE_FLAME, "update_flame")
          [] OTHER         -> mk(junk.elem_type, junk.life_time,
                                 junk.update_func)

\* Values the uninitialized fields of `part' may hold.
NoJunk == [elem_type |-> ELEM_EMPTY, life_time |-> 0,
           update_func |-> "update_empty"]

(******************************* grid **************************************)
Index(x, y) == y * W + x

in_bounds(x, y) == ~(x < 0 \/ x >= W \/ y < 0 \/ y >= H)

XOf(i) == i % W
YOf(i) == i \div W

\* clear_grid: every cell is the empty particle.
clear_grid(g) == [i \in Cells |-> empty_particle]

\* get_particle: &grid->arr[y * width + x], no bounds check.  `wild' is the
\* particle a read outside the buffer yields.
get_particle(g, x, y, wild) ==
    IF Index(x, y) \in Cells THEN g[Index(x, y)] ELSE wild

\* set_particle: copies the fields of p unless index < 0 or index > w*h.  A
\* write at index = w*h lands one element past the buffer: no cell changes.
set_particle(g, x, y, p) ==
    LET index == Index(x, y)
    IN  IF index < 0 \/ index > W * H THEN g
        ELSE IF index \in Cells
             THEN [g EXCEPT ![index] = [p EXCEPT !.runs = g[index].runs]]
             ELSE g

\* Whether set_particle(x, y) touches memory (inside or just past the buffer).
set_particle_writes(x, y) ==
    ~(Index(x, y) < 0 \/ Index(x, y) > W * H)

get_particle_type(p) == p.mat_type

is_particle_empty(p)  == p.mat_type = MAT_EMPTY
is_particle_static(p) == p.elem_type = ELEM_STATIC
is_particle_solid(p)  == p.elem_type = ELEM_SOLID
is_particle_liquid(p) == p.elem_type = ELEM_LIQUID
is_particle_gas(p)    == p.elem_type = ELEM_GAS

get_particle_type_pos(g, x, y) ==
    IF x < 0 \/ x >= W \/ y < 0 \/ y >= H THEN MAT_EMPTY
    ELSE get_particle(g, x, y, empty_particle).mat_type

\* Mutant: the bounds test compares with > where the code has >=.
is_pos_empty_gt(g, x, y) ==
    IF x < 0 \/ x > W \/ y < 0 \/ y > H THEN FALSE
    ELSE is_particle_empty(get_particle(g, x, y, empty_particle))

is_pos_empty(g, x, y) ==
    IF x < 0 \/ x >= W \/ y < 0 \/ y >= H THEN FALSE
    ELSE is_particle_empty(get_particle(g, x, y, empty_particle))

is_pos_static(g, x, y) ==
    IF x < 0 \/ x >= W \/ y < 0 \/ y >= H THEN FALSE
    ELSE is_particle_static(get_particle(g, x, y, empty_particle))

is_pos_solid(g, x, y) ==
    IF x < 0 \/ x >= W \/ y < 0 \/ y >= H THEN FALSE
    ELSE is_particle_solid(get_particle(g, x, y, empty_particle))

is_pos_liquid(g, x, y) ==
    IF x < 0 \/ x >= W \/ y < 0 \/ y >= H THEN FALSE
    ELSE is_particle_liquid(get_particle(g, x, y, empty_particle))

is_pos_gas(g, x, y) ==
    IF x < 0 \/ x >= W \/ y < 0 \/ y >= H THEN FALSE
    ELSE is_particle_gas(get_particle(g, x, y, empty_particle))

\* Mutant: the target is tested through get_particle, without bounds check.
add_particle_unchecked(g, x, y, m, junk) ==
    IF ~is_particle_empty(get_particle(g, x, y,
                                       new_particle(MAT_WALL, NoJunk)))
    THEN g
    ELSE set_particle(g, x, y, new_particle(m, junk))

\* Mutant: the target is bounds-checked but written whatever it holds.
add_particle_overwrite(g, x, y, m, junk) ==
    IF ~in_bounds(x, y) THEN g
    ELSE set_particle(g, x, y, new_particle(m, junk))

\* add_particle: nothing unless the position is in range and Empty.
add_particle(g, x, y, m, junk) ==
    IF ~is_pos_empty(g, x, y) THEN g
    ELSE set_particle(g, x, y, new_particle(m, junk))

\* remove_particle: returns early only when is_pos_empty says true, which it
\* never does for a position outside the grid.
remove_particle(g, x, y) ==
    IF is_pos_empty(g, x, y) THEN g
    ELSE set_particle(g, x, y, empty_particle)

\* remove_particle reaches set_particle with coordinates outside the grid
\* and set_particle's index check lets the write through.
remove_particle_oob(g, x, y) ==
    /\ ~is_pos_empty(g, x, y)
    /\ ~in_bounds(x, y)
    /\ set_particle_writes(x, y)

\* Mutant: the two records are exchanged and neither is flagged.
swap_particles_noflag(g, x1, y1, x2, y2) ==
    [g EXCEPT ![Index(x1, y1)] = g[Index(x2, y2)],
              ![Index(x2, y2)] = g[Index(x1, y1)]]

\* Mutant: the second cell receives the first record and the first cell
\* keeps it.
swap_particles_dup(g, x1, y1, x2, y2) ==
    LET index1 == Index(x1, y1)
        index2 == Index(x2, y2)
    IN  [g EXCEPT ![index1] = [g[index1] EXCEPT !.has_been_updated = TRUE],
                  ![index2] = [g[index1] EXCEPT !.has_been_updated = TRUE]]

\* swap_particles: exchanges the two records and flags both.
swap_particles(g, x1, y1, x2, y2) ==
    LET index1 == Index(x1, y1)
        index2 == Index(x2, y2)
    IN  [g EXCEPT ![index1] = [g[index2] EXCEPT !.has_been_updated = TRUE],
                  ![index2] = [g[index1] EXCEPT !.has_been_updated = TRUE]]

\* curr_particle->has_been_updated = true
set_updated(g, x, y) ==
    [g EXCEPT ![Index(x, y)].has_been_updated = TRUE]

(************************** behaviour rules ********************************)
\* update_empty, update_wall: the cell is only marked processed.
update_empty(g, x, y) == set_updated(g, x, y)

update_wall(g, x, y) == set_updated(g, x, y)

\* Mutant: below-left is tried before straight-below.
update_sand_diag(g, x, y) ==
    LET below == y - 1
        left  == x - 1
        right == x + 1
        open(cx, cy) == \/ is_pos_empty(g, cx, cy)
                        \/ is_pos_liquid(g, cx, cy)
                        \/ is_pos_gas(g, cx, cy)
        moved == IF open(left, below) /\ ~is_pos_static(g, x, below)
                   THEN swap_particles(g, x, y, left, below)
                 ELSE IF open(x, below)
                   THEN swap_particles(g, x, y, x, below)
                 ELSE IF open(right, below) /\ ~is_pos_static(g, x, below)
                   THEN swap_particles(g, x, y, right, below)
                 ELSE g
    IN  IF y = 0 THEN set_updated(g, x, y)
        ELSE set_updated(moved, x, y)

\* Mutant: below-right is tried before below-left.
update_sand_right(g, x, y) ==
    LET below == y - 1
        left  == x - 1
        right == x + 1
        open(cx, cy) == \/ is_pos_empty(g, cx, cy)
                        \/ is_pos_liquid(g, cx, cy)
                        \/ is_pos_gas(g, cx, cy)
        moved == IF open(x, below)
                   THEN swap_particles(g, x, y, x, below)
                 ELSE IF open(right, below) /\ ~is_pos_static(g, x, below)
                   THEN swap_particles(g, x, y, right, below)
                 ELSE IF open(left, below) /\ ~is_pos_static(g, x, below)
                   THEN swap_particles(g, x, y, left, below)
                 ELSE g
    IN  IF y = 0 THEN set_updated(g, x, y)
        ELSE set_updated(moved, x, y)

\* Mutant: a Static destination qualifies too.
update_sand_sink(g, x, y) ==
    LET below == y - 1
        left  == x - 1
        right == x + 1
        open(cx, cy) == \/ is_pos_empty(g, cx, cy)
                        \/ is_pos_liquid(g, cx, cy)
                        \/ is_pos_gas(g, cx, cy)
                        \/ is_pos_static(g, cx, cy)
        moved == IF open(x, below)
                   THEN swap_particles(g, x, y, x, below)
                 ELSE IF open(left, below) /\ ~is_pos_static(g, x, below)
                   THEN swap_particles(g, x, y, left, below)
                 ELSE IF open(right, below) /\ ~is_pos_static(g, x, below)
                   THEN swap_particles(g, x, y, right, below)
                 ELSE g
    IN  IF y = 0 THEN set_updated(g, x, y)
        ELSE set_updated(moved, x, y)

\* update_sand: below, then below-left, then below-right; a destination
\* qualifies if Empty, Liquid or Gas; the diagonal moves need a non-Static
\* cell straight below.  The bottom row never moves.
update_sand(g, x, y) ==
    LET below == y - 1
        left  == x - 1
        right == x + 1
        open(cx, cy) == \/ is_pos_empty(g, cx, cy)
                        \/ is_pos_liquid(g, cx, cy)
                        \/ is_pos_gas(g, cx, cy)
        moved == IF open(x, below)
                   THEN swap_particles(g, x, y, x, below)
                 ELSE IF open(left, below) /\ ~is_pos_static(g, x, below)
                   THEN swap_particles(g, x, y, left, below)
                 ELSE IF open(right, below) /\ ~is_pos_static(g, x, below)
                   THEN swap_particles(g, x, y, right, below)
                 ELSE g
    IN  IF y = 0 THEN set_updated(g, x, y)
        ELSE set_updated(moved, x, y)

\* Mutant: the diagonal moves do not look at the class of the cell below.
update_water_noveto(g, x, y) ==
    LET below == y - 1
        left  == x - 1
        right == x + 1
        open(cx, cy) == \/ is_pos_empty(g, cx, cy)
                        \/ is_pos_gas(g, cx, cy)
                        \/ get_particle_type_pos(g, cx, cy) = MAT_OIL
        moved == IF open(x, below)
                   THEN swap_particles(g, x, y, x, below)
                 ELSE IF open(left, below)
                   THEN swap_particles(g, x, y, left, below)
                 ELSE IF open(right, below)
                   THEN swap_particles(g, x, y, right, below)
                 ELSE IF open(left, y)
                   THEN swap_particles(g, x, y, left, y)
                 ELSE IF open(right, y)
                   THEN swap_particles(g, x, y, right, y)
                 ELSE g
    IN  set_updated(moved, x, y)

\* Mutant: like Sand, a Water on the bottom row does not move.
update_water_floor(g, x, y) ==
    LET below == y - 1
        left  == x - 1
        right == x + 1
        open(cx, cy) == \/ is_pos_empty(g, cx, cy)
                        \/ is_pos_gas(g, cx, cy)
                        \/ get_particle_type_pos(g, cx, cy) = MAT_OIL
        moved == IF open(x, below)
                   THEN swap_particles(g, x, y, x, below)
                 ELSE IF open(left, below) /\ ~is_pos_static(g, x, below)
                   THEN swap_particles(g, x, y, left, below)
                 ELSE IF open(right, below) /\ ~is_pos_static(g, x, below)
                   THEN swap_particles(g, x, y, right, below)
                 ELSE IF open(left, y)
                   THEN swap_particles(g, x, y, left, y)
                 ELSE IF open(right, y)
                   THEN swap_particles(g, x, y, right, y)
                 ELSE g
    IN  IF y = 0 THEN set_updated(g, x, y)
        ELSE set_updated(moved, x, y)

\* update_water: a destination qualifies if Empty, Gas or Oil; after the
\* three downward candidates come left and right.  No bottom-row check.
update_water(g, x, y) ==
    LET below == y - 1
        left  == x - 1
        right == x + 1
        open(cx, cy) == \/ is_pos_empty(g, cx, cy)
                        \/ is_pos_gas(g, cx, cy)
                        \/ get_particle_type_pos(g, cx, cy) = MAT_OIL
        moved == IF open(x, below)
                   THEN swap_particles(g, x, y, x, below)
                 ELSE IF open(left, below) /\ ~is_pos_static(g, x, below)
                   THEN swap_particles(g, x, y, left, below)
                 ELSE IF open(right, below) /\ ~is_pos_static(g, x, below)
                   THEN swap_particles(g, x, y, right, below)
                 ELSE IF open(left, y)
                   THEN swap_particles(g, x, y, left, y)
                 ELSE IF open(right, y)
                   THEN swap_particles(g, x, y, right, y)
                 ELSE g
    IN  set_updated(moved, x, y)

\* Mutant: a gas with two Empty cells above it rises two rows.
gas_move_leap(g, x, y) ==
    LET above == y + 1
        left  == x - 1
        right == x + 1
    IN  IF is_pos_empty(g, x, above) /\ is_pos_empty(g, x, above + 1)
          THEN swap_particles(g, x, y, x, above + 1)
        ELSE IF is_pos_empty(g, x, above)
          THEN swap_particles(g, x, y, x, above)
        ELSE IF is_pos_empty(g, left, above) /\ ~is_pos_static(g, x, above)
          THEN swap_particles(g, x, y, left, above)
        ELSE IF is_pos_empty(g, right, above) /\ ~is_pos_static(g, x, above)
          THEN swap_particles(g, x, y, right, above)
        ELSE IF is_pos_empty(g, left, y)
          THEN swap_particles(g, x, y, left, y)
        ELSE IF is_pos_empty(g, right, y)
          THEN swap_particles(g, x, y, right, y)
        ELSE g

\* The movement shared by update_smoke and update_flame: above, above-left,
\* above-right, left, right, into Empty cells only.
gas_move(g, x, y) ==
    LET above == y + 1
        left  == x - 1
        right == x + 1
    IN  IF is_pos_empty(g, x, above)
          THEN swap_particles(g, x, y, x, above)
        ELSE IF is_pos_empty(g, left, above) /\ ~is_pos_static(g, x, above)
          THEN swap_particles(g, x, y, left, above)
        ELSE IF is_pos_empty(g, right, above) /\ ~is_pos_static(g, x, above)
          THEN swap_particles(g, x, y, right, above)
        ELSE IF is_pos_empty(g, left, y)
          THEN swap_particles(g, x, y, left, y)
        ELSE IF is_pos_empty(g, right, y)
          THEN swap_particles(g, x, y, right, y)
        ELSE g

\* Mutant: the decay draw is made and not subtracted.
decay_kept(g, x, y, r, den) == g

\* life_time -= (float)rand() / (float)(RAND_MAX / K) for rand() = r and the
\* divisor den.
decay(g, x, y, r, den) ==
    [g EXCEPT ![Index(x, y)].life_time = fsub[@, draw(r, den)]]

\* update_smoke: r is the rand() of the decay draw.
update_smoke(g, x, y, r) ==
    IF y = H THEN set_updated(g, x, y)
    ELSE LET g1 == decay(g, x, y, r, DIV_SMOKE)
         IN  IF g1[Index(x, y)].life_time <= 0
               THEN set_updated(remove_particle(g1, x, y), x, y)
             ELSE set_updated(gas_move(g1, x, y), x, y)

\* Mutant: a flame expires only when its life_time falls below 0.
update_flame_strict(g, x, y, r) ==
    LET g1 == decay(g, x, y, r, DIV_FLAME)
    IN  IF g1[Index(x, y)].life_time < 0
          THEN set_updated(remove_particle(g1, x, y), x, y)
        ELSE set_updated(gas_move(g1, x, y), x, y)

\* update_flame: r is the rand() of the decay draw.
update_flame(g, x, y, r) ==
    LET g1 == decay(g, x, y, r, DIV_FLAME)
    IN  IF g1[Index(x, y)].life_time <= 0
          THEN set_updated(remove_particle(g1, x, y), x, y)
        ELSE set_updated(gas_move(g1, x, y), x, y)

\* Mutant: an expired fire is left in place and its smoke is put in the
\* cell above.
update_fire_emit(g, x, y, d, r) ==
    LET g1 == decay(g, x, y, d, DIV_FIRE)
        g3 == IF r = 0 THEN add_particle(g1, x, y + 1, MAT_SMOKE, NoJunk)
              ELSE g1
    IN  IF g1[Index(x, y)].life_time <= 0
          THEN set_updated(g3, x, y)
        ELSE g1

\* update_fire: d is the rand() of the decay draw, r the rand() % 5 of the
\* smoke roll.  A fire that has not expired is neither moved nor flagged.
update_fire(g, x, y, d, r) ==
    LET g1 == decay(g, x, y, d, DIV_FIRE)
        g2 == remove_particle(g1, x, y)
        g3 == IF r = 0 THEN add_particle(g2, x, y, MAT_SMOKE, NoJunk) ELSE g2
    IN  IF g1[Index(x, y)].life_time <= 0
          THEN set_updated(g3, x, y)
        ELSE g1

\* The 8 neighbours update_oil and update_wood read, in the order of the code.
Neighbours(x, y) ==
    << <<x - 1, y - 1>>, <<x, y - 1>>, <<x + 1, y - 1>>,
       <<x - 1, y>>,                   <<x + 1, y>>,
       <<x - 1, y + 1>>, <<x, y + 1>>, <<x + 1, y + 1>> >>

\* get_particle_type(temp_particle) == MAT_FLAME || ... == MAT_FIRE
is_burning(p) ==
    get_particle_type(p) = MAT_FLAME \/ get_particle_type(p) = MAT_FIRE

\* The neighbour slots whose unchecked read yields a burning material.
burning_slots(g, x, y, wild) ==
    {k \in 1..8 : is_burning(get_particle(g, Neighbours(x, y)[k][1],
                                          Neighbours(x, y)[k][2], wild))}

\* The neighbour slots whose read falls outside the buffer.
wild_slots(x, y) ==
    {k \in 1..8 : Index(Neighbours(x, y)[k][1], Neighbours(x, y)[k][2])
                    \notin Cells}

\* The neighbour slots whose read falls before the start of the buffer.
before_slots(x, y) ==
    {k \in 1..8 : Index(Neighbours(x, y)[k][1], Neighbours(x, y)[k][2]) < 0}

\* The neighbour slots read with coordinates outside the grid.
oob_slots(x, y) ==
    {k \in 1..8 : ~in_bounds(Neighbours(x, y)[k][1], Neighbours(x, y)[k][2])}

\* Mutant: the ignited particle keeps the class of the registry's Fire.
ignite_plain(g, x, y, elem, temp_vel) ==
    LET g1 == add_particle(remove_particle(g, x, y), x, y, MAT_FIRE, NoJunk)
    IN  [g1 EXCEPT ![Index(x, y)].velocity = temp_vel]

\* One of the 8 ignition blocks: remove_particle, add_particle(MAT_FIRE),
\* then the element class and the velocity are overwritten.
ignite(g, x, y, elem, temp_vel) ==
    LET g1 == add_particle(remove_particle(g, x, y), x, y, MAT_FIRE, NoJunk)
    IN  [g1 EXCEPT ![Index(x, y)].elem_type = elem,
                   ![Index(x, y)].velocity = temp_vel]

\* The 8 blocks in order; hit(k) says block k reads a burning neighbour and
\* its roll succeeds.
RECURSIVE ignition_checks(_, _, _, _, _, _, _)
ignition_checks(g, x, y, elem, temp_vel, hit, k) ==
    IF k > 8 THEN g
    ELSE ignition_checks(IF k \in hit THEN ignite(g, x, y, elem, temp_vel)
                         ELSE g,
                         x, y, elem, temp_vel, hit, k + 1)

\* The movement at the end of update_oil.
oil_move(g, x, y) ==
    LET below == y - 1
        left  == x - 1
        right == x + 1
        open(cx, cy) == is_pos_empty(g, cx, cy) \/ is_pos_gas(g, cx, cy)
    IN  IF is_pos_empty(g, x, below)
          THEN swap_particles(g, x, y, x, below)
        ELSE IF open(left, below) /\ ~is_pos_static(g, x, below)
          THEN swap_particles(g, x, y, left, below)
        ELSE IF open(right, below) /\ ~is_pos_static(g, x, below)
          THEN swap_particles(g, x, y, right, below)
        ELSE IF is_pos_empty(g, left, y)
          THEN swap_particles(g, x, y, left, y)
        ELSE IF is_pos_empty(g, right, y)
          THEN swap_particles(g, x, y, right, y)
        ELSE g

\* update_oil: rolls[k] is the rand() % 4 of block k (drawn only when block k
\* reads a burning neighbour); the oil ignites when r != 0.
update_oil(g, x, y, wild, rolls) ==
    LET temp_vel == g[Index(x, y)].velocity
        hit == {k \in burning_slots(g, x, y, wild) : rolls[k] # 0}
        g1  == ignition_checks(g, x, y, ELEM_LIQUID, temp_vel, hit, 1)
    IN  set_updated(oil_move(g1, x, y), x, y)

\* update_wood: rolls[k] is the rand() % 2 of block k; the wood ignites when
\* r == 0.  Wood never moves.
update_wood(g, x, y, wild, rolls) ==
    LET temp_vel == g[Index(x, y)].velocity
        hit == {k \in burning_slots(g, x, y, wild) : rolls[k] = 0}
        g1  == ignition_checks(g, x, y, ELEM_STATIC, temp_vel, hit, 1)
    IN  set_updated(g1, x, y)

(*************************** stroke rasterizer *****************************)
\* Iterations after which a stroke is taken not to terminate; no stroke of
\* the model spans more than W + H + 6 cells.
LineFuel == 2 * (W + H) + 8

\* Mutant: the loop tests for the end point before it acts on the cell.
RECURSIVE line_path_open(_, _, _, _, _, _, _, _, _, _)
line_path_open(x1, y1, x2, y2, dx, dy, sx, sy, error, fuel) ==
    LET e2 == 2 * error
        stepx == e2 >= dy
        stepy == e2 <= dx
        xn == IF stepx THEN x1 + sx ELSE x1
        en == IF stepx THEN error + dy ELSE error
    IN  IF fuel = 0 THEN << <<x1, y1>> >>
        ELSE IF x1 = x2 /\ y1 = y2 THEN << >>
        ELSE IF stepx /\ x1 = x2 THEN << <<x1, y1>> >>
        ELSE IF stepy /\ y1 = y2 THEN << <<x1, y1>> >>
        ELSE << <<x1, y1>> >> \o
             line_path_open(xn, IF stepy THEN y1 + sy ELSE y1, x2, y2,
                            dx, dy, sx, sy,
                            IF stepy THEN en + dx ELSE en, fuel - 1)

\* The cells the while (1) loop of particle_line visits, in order; <<x1, y1>>
\* is the cell of the current iteration.  When the fuel runs out the walk is
\* cut, which leaves a path longer than LineFuel.
RECURSIVE line_path(_, _, _, _, _, _, _, _, _, _)
line_path(x1, y1, x2, y2, dx, dy, sx, sy, error, fuel) ==
    LET e2 == 2 * error
        stepx == e2 >= dy
        stepy == e2 <= dx
        xn == IF stepx THEN x1 + sx ELSE x1
        en == IF stepx THEN error + dy ELSE error
    IN  IF fuel = 0 THEN << <<x1, y1>> >>
        ELSE IF x1 = x2 /\ y1 = y2 THEN << <<x1, y1>> >>
        ELSE IF stepx /\ x1 = x2 THEN << <<x1, y1>> >>
        ELSE IF stepy /\ y1 = y2 THEN << <<x1, y1>> >>
        ELSE << <<x1, y1>> >> \o
             line_path(xn, IF stepy THEN y1 + sy ELSE y1, x2, y2,
                       dx, dy, sx, sy,
                       IF stepy THEN en + dx ELSE en, fuel - 1)

Abs(n) == IF n < 0 THEN -n ELSE n

\* Mutant: the x endpoints are not clamped.
clamp_x_off(x) == x

\* The four clamps at the head of particle_line.
clamp_x(x) == IF x > W THEN W ELSE x
clamp_y(y) == IF y > H THEN H ELSE y

\* Mutant: the y direction is taken from the x coordinates.
stroke_path_sy(x1, y1, x2, y2) ==
    LET cx1 == clamp_x(x1)
        cx2 == clamp_x(x2)
        cy1 == clamp_y(y1)
        cy2 == clamp_y(y2)
        dx == Abs(cx2 - cx1)
        sx == IF cx1 < cx2 THEN 1 ELSE -1
        dy == -Abs(cy2 - cy1)
        sy == IF cx1 < cx2 THEN 1 ELSE -1
    IN  line_path(cx1, cy1, cx2, cy2, dx, dy, sx, sy, dx + dy, LineFuel)

\* The cells particle_line(x1, y1, x2, y2) applies add/remove to.
stroke_path(x1, y1, x2, y2) ==
    LET cx1 == clamp_x(x1)
        cx2 == clamp_x(x2)
        cy1 == clamp_y(y1)
        cy2 == clamp_y(y2)
        dx == Abs(cx2 - cx1)
        sx == IF cx1 < cx2 THEN 1 ELSE -1
        dy == -Abs(cy2 - cy1)
        sy == IF cy1 < cy2 THEN 1 ELSE -1
    IN  line_path(cx1, cy1, cx2, cy2, dx, dy, sx, sy, dx + dy, LineFuel)

\* remove_particle (m == MAT_EMPTY) or add_particle on each cell of the path.
RECURSIVE apply_path(_, _, _, _, _)
apply_path(g, path, k, m, junk) ==
    IF k > Len(path) THEN g
    ELSE apply_path(IF m = MAT_EMPTY
                      THEN remove_particle(g, path[k][1], path[k][2])
                      ELSE add_particle(g, path[k][1], path[k][2], m, junk),
                    path, k + 1, m, junk)

particle_line(g, x1, y1, x2, y2, m, junk) ==
    apply_path(g, stroke_path(x1, y1, x2, y2), 1, m, junk)

(**************************** material selector ****************************)
\* Mutant: the wrap test compares with MAT_COUNT.
next_material_late(m) == (IF m = MAT_COUNT THEN 0 ELSE m) + 1

next_material(m) == (IF m = MAT_COUNT - 1 THEN 0 ELSE m) + 1

prev_material(m) == (IF m = 1 THEN MAT_COUNT ELSE m) - 1

(******************************* inputs ************************************)
\* Coordinates handed to add_particle and remove_particle: the grid and one
\* cell beyond each edge.
XArgs == (-1) .. W
YArgs == (-1) .. H

\* Stroke endpoints: one cell further right and up, where the clamps act.
XEnds == (-1) .. (W + 1)
YEnds == (-1) .. (H + 1)

\* Materials handed to add_particle: the 8 of the registry, MAT_EMPTY and
\* MAT_COUNT, a value outside the defined materials.
AddMats == MAT_EMPTY .. MAT_COUNT

\* Materials handed to particle_line: erase, a solid and a gas.
LineMats == {MAT_EMPTY, MAT_SAND, MAT_FLAME}

\* Stroke endpoints of a session: the corners of the grid, a point beyond
\* the top right corner and a point left of the grid.
PlayEnds ==
    {<<0, 0>>, <<W - 1, 0>>, <<0, H - 1>>, <<W - 1, H - 1>>,
     <<W + 1, H + 1>>, <<-1, 1>>}

\* A value of rand() three quarters up its range (3 * 2^29).
RAND_MID == 3 * (RAND_MAX \div 4 + 1)

\* The values of rand() a decay draw is made with: the two ends of the
\* range, the smallest positive value and a value in between.
DecayDraws == {0, 1, RAND_MID, RAND_MAX}

\* What a read outside the buffer may yield: a burning or a non-burning
\* material.
WildParticles == {empty_particle, new_particle(MAT_FIRE, NoJunk)}

\* The behaviour rules add_particle and clear_grid install.
RuleNames ==
    {"update_empty", "update_sand", "update_water", "update_smoke",
     "update_oil", "update_wall", "update_wood", "update_fire",
     "update_flame"}

\* What the uninitialized fields of add_particle's `part' may hold when the
\* material has no case in the switch.  Each field holds what an earlier
\* call left in its stack slot or bytes no call has written, on its own:
\* the class is one of the enumeration or a value outside it, the life_time
\* is one of the registry or another float (-54806.2f and 1.05e-17f stand
\* for those), the pointer is one of the rules or a pointer to no rule.
JunkClasses == (ELEM_EMPTY .. ELEM_GAS) \cup {32677}
JunkLives ==
    {0, LIFE_SMOKE, LIFE_WOOD, LIFE_FIRE, LIFE_FLAME, -1196824115, 591520416}
JunkRules == RuleNames \cup {"garbage"}

JunkValues ==
    [elem_type : JunkClasses, life_time : JunkLives, update_func : JunkRules]

\* The values the fields add_particle's switch does not write may take for
\* material m: none for a material with a case, every value of JunkValues
\* for one without.
JunkOf(m) == IF m \in Materials THEN {NoJunk} ELSE JunkValues

NoOp == [op |-> "none", x1 |-> 0, y1 |-> 0, x2 |-> 0, y2 |-> 0,
         m |-> MAT_EMPTY, path |-> <<>>]

(******************************* actions ***********************************)
AddParticle(x, y, m, junk) ==
    /\ pc = "input"
    /\ grid' = add_particle(grid, x, y, m, junk)
    /\ before' = grid
    /\ last' = [op |-> "add_particle", x1 |-> x, y1 |-> y, x2 |-> x,
                y2 |-> y, m |-> m, path |-> <<>>]
    /\ UNCHANGED <<pc, pos, curr_mat, frame, bad_access>>

RemoveParticle(x, y) ==
    /\ pc = "input"
    /\ grid' = remove_particle(grid, x, y)
    /\ before' = grid
    /\ last' = [op |-> "remove_particle", x1 |-> x, y1 |-> y, x2 |-> x,
                y2 |-> y, m |-> MAT_EMPTY, path |-> <<>>]
    /\ bad_access' = (bad_access \/ remove_particle_oob(grid, x, y))
    /\ UNCHANGED <<pc, pos, curr_mat, frame>>

ParticleLine(x1, y1, x2, y2, m) ==
    /\ pc = "input"
    /\ grid' = particle_line(grid, x1, y1, x2, y2, m, NoJunk)
    /\ before' = grid
    /\ LET path == stroke_path(x1, y1, x2, y2)
       IN  /\ last' = [op |-> "particle_line", x1 |-> x1, y1 |-> y1,
                       x2 |-> x2, y2 |-> y2, m |-> m, path |-> path]
           /\ bad_access' =
                (\/ bad_access
                 \/ /\ m = MAT_EMPTY
                    /\ \E k \in 1 .. Len(path) :
                          remove_particle_oob(grid, path[k][1], path[k][2]))
    /\ UNCHANGED <<pc, pos, curr_mat, frame>>

ClearGrid ==
    /\ pc = "input"
    /\ grid' = clear_grid(grid)
    /\ before' = grid
    /\ last' = [NoOp EXCEPT !.op = "clear_grid"]
    /\ UNCHANGED <<pc, pos, curr_mat, frame, bad_access>>

\* KEY_RIGHT: curr_mat = next_material(curr_mat)
KeyRight ==
    /\ pc = "input"
    /\ curr_mat' = next_material(curr_mat)
    /\ last' = [NoOp EXCEPT !.op = "next_material", !.m = curr_mat]
    /\ UNCHANGED <<grid, pc, pos, frame, before, bad_access>>

\* KEY_LEFT: curr_mat = prev_material(curr_mat)
KeyLeft ==
    /\ pc = "input"
    /\ curr_mat' = prev_material(curr_mat)
    /\ last' = [NoOp EXCEPT !.op = "prev_material", !.m = curr_mat]
    /\ UNCHANGED <<grid, pc, pos, frame, before, bad_access>>

\* main enters the Simulate loop (line 500).
BeginFrame ==
    /\ pc = "input"
    /\ pc' = "simulate"
    /\ pos' = 0
    /\ before' = grid
    /\ last' = [NoOp EXCEPT !.op = "step"]
    /\ UNCHANGED <<grid, curr_mat, frame, bad_access>>

\* curr_particle->update_func(grid, x, y), the rule counted on the particle.
\* A pointer to no rule has no result: the call kills the process.
invoke(g, x, y, d, r, wild, rolls) ==
    LET f  == g[Index(x, y)].update_func
        g1 == [g EXCEPT ![Index(x, y)].runs = @ + 1]
    IN  CASE f = "update_empty" -> update_empty(g1, x, y)
          [] f = "update_sand"  -> update_sand(g1, x, y)
          [] f = "update_water" -> update_water(g1, x, y)
          [] f = "update_smoke" -> update_smoke(g1, x, y, d)
          [] f = "update_oil"   -> update_oil(g1, x, y, wild, rolls)
          [] f = "update_wall"  -> update_wall(g1, x, y)
          [] f = "update_wood"  -> update_wood(g1, x, y, wild, rolls)
          [] f = "update_fire"  -> update_fire(g1, x, y, d, r)
          [] f = "update_flame" -> update_flame(g1, x, y, d)

\* The rand() values of the decay draw the rule of particle p makes.
DecayOf(p) ==
    IF p.update_func \in {"update_smoke", "update_fire", "update_flame"}
    THEN DecayDraws
    ELSE {0}

\* The rand() % 5 of the smoke roll, which update_fire draws when the decay
\* draw made with rand() = d ends the Fire.
SmokeRollOf(p, d) ==
    IF /\ p.update_func = "update_fire"
       /\ fsub[p.life_time, draw(d, DIV_FIRE)] <= 0
    THEN 0 .. (SMOKE_ROLL - 1)
    ELSE {0}

\* The ignition rolls: the two ends of the range of rand() % n, the only
\* value that keeps Oil from igniting (0, which is the one that ignites Wood)
\* and the largest.
IgniteRollOf(p) ==
    CASE p.update_func = "update_oil"  -> {0, OIL_ROLL - 1}
      [] p.update_func = "update_wood" -> {0, WOOD_ROLL - 1}
      [] OTHER -> {0}

Ignitable(p) == p.update_func \in {"update_oil", "update_wood"}

WildOf(p, x, y) ==
    IF Ignitable(p) /\ wild_slots(x, y) # {} THEN WildParticles
    ELSE {empty_particle}

\* The rolls of a rule that draws none.
NoRolls == [k \in 1..8 |-> 0]

\* One roll for each block that reads a burning neighbour.
RollsOf(g, p, x, y, wild) ==
    LET b == IF Ignitable(p) THEN burning_slots(g, x, y, wild) ELSE {}
    IN  IF b = {} THEN {NoRolls}
        ELSE {[k \in 1..8 |-> IF k \in b THEN rs[k] ELSE 0] :
                rs \in [b -> IgniteRollOf(p)]}

\* The grids the rule of the particle at cell i may leave when the call
\* returns, one for each outcome of the draws and of the reads outside the
\* buffer.
RuleResults(g, i) ==
    IF g[i].update_func \notin RuleNames THEN {}
    ELSE UNION {{invoke(g, XOf(i), YOf(i), a[1], r, a[2], rolls) :
                   r \in SmokeRollOf(g[i], a[1]),
                   rolls \in RollsOf(g, g[i], XOf(i), YOf(i), a[2])} :
                a \in DecayOf(g[i]) \X WildOf(g[i], XOf(i), YOf(i))}

\* Whether the call of the rule of the particle at cell i kills the process:
\* always when update_func points at no rule, possibly when update_oil or
\* update_wood reads before the start of the buffer.  The first read of
\* such a rule run is at a negative index, so nothing is written before.
CrashOf(g, i) ==
    IF g[i].update_func \notin RuleNames THEN {TRUE}
    ELSE IF Ignitable(g[i]) /\ before_slots(XOf(i), YOf(i)) # {}
      THEN {FALSE, TRUE}
    ELSE {FALSE}

\* One iteration of the Simulate loop (lines 501-505): a flagged cell is
\* skipped, the rule of any other cell is invoked.
ScanCell ==
    /\ pc = "simulate"
    /\ pos < N
    /\ IF grid[pos].has_been_updated
       THEN /\ pos' = pos + 1
            /\ UNCHANGED <<grid, pc, bad_access>>
       ELSE /\ \E crash \in CrashOf(grid, pos) :
                  IF crash
                  THEN pc' = "crashed" /\ UNCHANGED <<grid, pos>>
                  ELSE /\ grid' \in RuleResults(grid, pos)
                       /\ pos' = pos + 1
                       /\ UNCHANGED pc
            /\ bad_access' =
                 (bad_access \/ (Ignitable(grid[pos])
                                 /\ oob_slots(XOf(pos), YOf(pos)) # {}))
    /\ UNCHANGED <<curr_mat, frame, before, last>>

\* Mutant: the Reset scan clears nothing.
reset_flags_skip(g) == g

\* The Reset loop (lines 508-514): every flag is cleared.
reset_flags(g) ==
    [i \in Cells |-> [g[i] EXCEPT !.has_been_updated = FALSE, !.runs = 0]]

EndFrame ==
    /\ pc = "simulate"
    /\ pos = N
    /\ grid' = reset_flags(grid)
    /\ pc' = "input"
    /\ frame' = frame + 1
    /\ UNCHANGED <<pos, curr_mat, before, last, bad_access>>

(**************************** initial grids ********************************)
EmptyGrid == [i \in Cells |-> empty_particle]

\* A grid filled by strokes of material m over every row.
Uniform(m) == [i \in Cells |-> new_particle(m, NoJunk)]

\* One particle of material m in an otherwise Empty grid.
Single(m, i) == [EmptyGrid EXCEPT ![i] = new_particle(m, NoJunk)]

\* The grids the API operations are applied to: the grid new_grid returns,
\* the grids full of one material, and a Sand in any one cell of an
\* otherwise Empty grid.
ApiGrids ==
    {EmptyGrid} \cup {Uniform(m) : m \in Materials}
                \cup {Single(MAT_SAND, i) : i \in Cells}

\* The grids a session starts from: the grid new_grid returns, and a Sand
\* at rest in the left corner of the bottom row.
PlayGrids == {EmptyGrid, Single(MAT_SAND, 0)}

\* Every other cell holds Sand.
Checker == [i \in Cells |-> IF i % 2 = 0 THEN new_particle(MAT_SAND, NoJunk)
                                         ELSE empty_particle]

\* The grids the strokes are applied to.
LineGrids == {EmptyGrid, Uniform(MAT_SAND), Checker}

\* Fire as update_oil and update_wood leave it: class Liquid or Static.
ignited(elem) == [new_particle(MAT_FIRE, NoJunk) EXCEPT !.elem_type = elem]

\* The life_time left of l when every draw so far was the largest, d, and
\* the next such draw ends it: 6.1e-7 of Smoke's 3.0f after 30 draws, 0.05
\* of Fire's 8.0f after 53, 0.25f of Flame's 1.5f after 5.
RECURSIVE ember(_, _)
ember(l, d) == IF fsub[l, d] <= 0 THEN l ELSE ember(fsub[l, d], d)

\* The life_time left of l after n draws of d.
RECURSIVE spent(_, _, _)
spent(l, d, n) == IF n = 0 THEN l ELSE spent(fsub[l, d], d, n - 1)

\* Particle p with life_time k left.
aged(p, k) == [p EXCEPT !.life_time = k]

\* The decaying particles one largest draw away from their end.
OldSmoke ==
    aged(new_particle(MAT_SMOKE, NoJunk), ember(LIFE_SMOKE, DECAY_SMOKE))
OldFlame ==
    aged(new_particle(MAT_FLAME, NoJunk), ember(LIFE_FLAME, DECAY_FLAME))
OldFire ==
    aged(new_particle(MAT_FIRE, NoJunk), ember(LIFE_FIRE, DECAY_FIRE))

\* A Smoke after 29 largest draws and one of rand() = RAND_MID: 0.025 is
\* left, which the smallest positive draw leaves as it is.
LateSmoke ==
    aged(new_particle(MAT_SMOKE, NoJunk),
         fsub[spent(LIFE_SMOKE, DECAY_SMOKE, 29), draw(RAND_MID, DIV_SMOKE)])

\* Particles a cell may hold at a frame boundary: the registry's defaults,
\* fire ignited from oil, and decaying particles about to expire.
StepPalette ==
    {new_particle(m, NoJunk) : m \in Materials}
      \cup {ignited(ELEM_LIQUID)}
      \cup {OldSmoke, OldFlame, OldFire}

\* The grids with at most k non-Empty cells drawn from palette.
RECURSIVE Place(_, _)
Place(palette, k) ==
    IF k = 0 THEN {EmptyGrid}
    ELSE LET s == Place(palette, k - 1)
         IN  s \cup {[g EXCEPT ![i] = p] : g \in s, i \in Cells, p \in palette}

StepGrids == Place(StepPalette, MaxParticles)

\* StepPalette and the fire ignited from wood.
DuoPalette == StepPalette \cup {ignited(ELEM_STATIC)}

\* Two particles of DuoPalette in an otherwise Empty grid.
DuoGrids ==
    {[EmptyGrid EXCEPT ![i] = p, ![j] = q] :
        i \in Cells, j \in Cells, p \in DuoPalette, q \in DuoPalette}

\* An Oil or Wood particle and two Fire particles.
IgnitionGrids ==
    {[EmptyGrid EXCEPT ![i] = new_particle(MAT_FIRE, NoJunk),
                       ![j] = new_particle(MAT_FIRE, NoJunk),
                       ![k] = new_particle(m, NoJunk)] :
        i \in Cells, j \in Cells, k \in Cells, m \in {MAT_OIL, MAT_WOOD}}

InitCommon ==
    /\ pc = "input"
    /\ pos = 0
    /\ curr_mat = MAT_SAND
    /\ frame = 0
    /\ before = grid
    /\ last = NoOp
    /\ bad_access = FALSE

(*************************** specifications ********************************)
\* One add_particle, remove_particle or clear_grid applied to a grid of
\* ApiGrids.
InitApi == grid \in ApiGrids /\ InitCommon

ApiAdd ==
    /\ last.op = "none"
    /\ \E x \in XArgs, y \in YArgs, m \in AddMats :
          \E junk \in JunkOf(m) : AddParticle(x, y, m, junk)

ApiRemove ==
    /\ last.op = "none"
    /\ \E x \in XArgs, y \in YArgs : RemoveParticle(x, y)

ApiClear == last.op = "none" /\ ClearGrid

NextApi == ApiAdd \/ ApiRemove \/ ApiClear

SpecApi == InitApi /\ [][NextApi]_vars

\* One stroke applied to a grid of LineGrids.
InitLine == grid \in LineGrids /\ InitCommon

ApiLine ==
    /\ last.op = "none"
    /\ \E x1 \in XEnds, y1 \in YEnds, x2 \in XEnds, y2 \in YEnds,
          m \in LineMats : ParticleLine(x1, y1, x2, y2, m)

NextLine == ApiLine

SpecLine == InitLine /\ [][NextLine]_vars

\* One frame stepped from a grid of StepGrids.
InitStep == grid \in StepGrids /\ InitCommon

NextStep ==
    \/ frame < 1 /\ BeginFrame
    \/ ScanCell
    \/ EndFrame

SpecStep == InitStep /\ [][NextStep]_vars

\* One frame stepped from a grid of two particles, or of an Oil or Wood
\* particle and two Fire particles.
InitDuo == grid \in DuoGrids \cup IgnitionGrids /\ InitCommon

NextDuo ==
    \/ frame < 1 /\ BeginFrame
    \/ ScanCell
    \/ EndFrame

SpecDuo == InitDuo /\ [][NextDuo]_vars

\* The grid new_grid returns, stepped for MaxIdleFrames frames with no
\* mouse input: at most one key press before each frame.
InitIdle == grid = EmptyGrid /\ InitCommon

NextIdle ==
    \/ last.op \in {"none", "step"} /\ KeyRight
    \/ last.op \in {"none", "step"} /\ KeyLeft
    \/ frame < MaxIdleFrames /\ BeginFrame
    \/ ScanCell
    \/ EndFrame

SpecIdle == InitIdle /\ [][NextIdle]_vars

\* A session from a grid of PlayGrids: a gesture (add_particle,
\* remove_particle, a stroke or clear_grid) and the frame that follows it.
InitPlay == grid \in PlayGrids /\ InitCommon

GestureOpen == pc = "input" /\ last.op = "none"

PlayAdd ==
    /\ GestureOpen
    /\ \E x \in XArgs, y \in YArgs, m \in AddMats :
          \E junk \in JunkOf(m) : AddParticle(x, y, m, junk)

PlayRemove ==
    /\ GestureOpen
    /\ \E x \in XArgs, y \in YArgs : RemoveParticle(x, y)

PlayLine ==
    /\ GestureOpen
    /\ \E a \in PlayEnds, b \in PlayEnds, m \in LineMats :
          ParticleLine(a[1], a[2], b[1], b[2], m)

PlayClear == GestureOpen /\ ClearGrid

NextPlay ==
    \/ PlayAdd
    \/ PlayRemove
    \/ PlayLine
    \/ PlayClear
    \/ frame < 1 /\ last.op # "none" /\ BeginFrame
    \/ ScanCell
    \/ EndFrame

SpecPlay == InitPlay /\ [][NextPlay]_vars

\* A single Sand particle placed on the top row of an Empty grid, then
\* stepped for H + 1 frames.
InitSettle ==
    /\ grid \in {Single(MAT_SAND, Index(x, H - 1)) : x \in 0 .. (W - 1)}
    /\ InitCommon

NextSettle ==
    \/ frame < H + 1 /\ BeginFrame
    \/ ScanCell
    \/ EndFrame

SpecSettle == InitSettle /\ [][NextSettle]_vars

\* One frame stepped from a grid of two particles.
InitPair == grid \in DuoGrids /\ InitCommon

NextPair ==
    \/ frame < 1 /\ BeginFrame
    \/ ScanCell
    \/ EndFrame

SpecPair == InitPair /\ [][NextPair]_vars

\* The Reset loop at the end of a frame of a session that runs frame after
\* frame: EndFrame with the frame count left alone.
EndFrameOpen ==
    /\ pc = "simulate"
    /\ pos = N
    /\ grid' = reset_flags(grid)
    /\ pc' = "input"
    /\ UNCHANGED <<pos, curr_mat, frame, before, last, bad_access>>

\* The grids the rule of the decaying particle at cell i may leave when its
\* decay draw is positive.
PositiveResults(g, i) ==
    IF g[i].update_func \notin RuleNames THEN {}
    ELSE UNION {{invoke(g, XOf(i), YOf(i), a[1], r, a[2], rolls) :
                   r \in SmokeRollOf(g[i], a[1]),
                   rolls \in RollsOf(g, g[i], XOf(i), YOf(i), a[2])} :
                a \in (DecayOf(g[i]) \ {0})
                         \X WildOf(g[i], XOf(i), YOf(i))}

\* An iteration of the Simulate loop that runs the rule of a Smoke, Fire or
\* Flame particle with a positive decay draw.
PositiveDecay ==
    /\ pc = "simulate"
    /\ pos < N
    /\ ~grid[pos].has_been_updated
    /\ DecayOf(grid[pos]) # {0}
    /\ grid' \in PositiveResults(grid, pos)
    /\ pos' = pos + 1
    /\ UNCHANGED <<pc, curr_mat, frame, before, last, bad_access>>

\* The divisor of the decay draw the rule of particle p makes.
DivOf(p) ==
    CASE p.update_func = "update_smoke" -> DIV_SMOKE
      [] p.update_func = "update_fire"  -> DIV_FIRE
      [] OTHER                          -> DIV_FLAME

\* The rand() values whose decay draw lowers the life_time of particle p:
\* the float subtraction leaves the life_time as it was when the draw is
\* below half the spacing of the floats around it.
LoweringDraws(p) ==
    {d \in DecayOf(p) \ {0} :
        fsub[p.life_time, draw(d, DivOf(p))] # p.life_time}

\* The grids the rule of the decaying particle at cell i may leave when its
\* decay draw lowers the life_time.
LoweringResults(g, i) ==
    IF g[i].update_func \notin RuleNames THEN {}
    ELSE UNION {{invoke(g, XOf(i), YOf(i), a[1], r, a[2], rolls) :
                   r \in SmokeRollOf(g[i], a[1]),
                   rolls \in RollsOf(g, g[i], XOf(i), YOf(i), a[2])} :
                a \in LoweringDraws(g[i])
                         \X WildOf(g[i], XOf(i), YOf(i))}

\* An iteration of the Simulate loop that runs the rule of a Smoke, Fire or
\* Flame particle with a decay draw that lowers its life_time.
LoweringDecay ==
    /\ pc = "simulate"
    /\ pos < N
    /\ ~grid[pos].has_been_updated
    /\ LoweringDraws(grid[pos]) # {}
    /\ grid' \in LoweringResults(grid, pos)
    /\ pos' = pos + 1
    /\ UNCHANGED <<pc, curr_mat, frame, before, last, bad_access>>

\* Decaying particles near their end: a Smoke and a Flame.  An expiring
\* Fire can leave a Smoke of full life_time, whose decay runs through
\* thousands of values: Fire is stepped in the one-frame specifications.
LivePalette == {LateSmoke, OldFlame}

\* A row of Wall over the bottom row.
Ceiling ==
    [i \in Cells |-> IF YOf(i) = 1 THEN new_particle(MAT_WALL, NoJunk)
                     ELSE empty_particle]

\* A decaying particle and a second particle (Water, Sand or Smoke) in an
\* otherwise Empty grid, a Water and a Smoke shut in the bottom row under a
\* row of Wall, and a single Water on the bottom row.
LiveGrids ==
    {[EmptyGrid EXCEPT ![i] = p, ![j] = q] :
        i \in Cells, j \in Cells, p \in LivePalette,
        q \in {new_particle(MAT_WATER, NoJunk),
                new_particle(MAT_SAND, NoJunk),
                LateSmoke}}
      \cup
    {[Ceiling EXCEPT ![i] = new_particle(MAT_WATER, NoJunk),
                     ![j] = LateSmoke] :
        i \in 0 .. (W - 1), j \in 0 .. (W - 1)}
      \cup
    {Single(MAT_WATER, i) : i \in 0 .. (W - 1)}

\* Frame after frame with no stroke, from a grid of LiveGrids.  The main
\* loop never stops between two iterations, and a decay draw that is made
\* again and again is positive again and again.
InitLive == grid \in LiveGrids /\ InitCommon

NextLive ==
    \/ BeginFrame
    \/ ScanCell
    \/ EndFrameOpen

SpecLive ==
    /\ InitLive
    /\ [][NextLive]_vars
    /\ WF_vars(NextLive)
    /\ SF_vars(PositiveDecay)

(******************************* claims ************************************)
\* The cell of the grid at in-range coordinates (x, y).
CellAt(g, x, y) == g[y * W + x]

InRange(x, y) == 0 <= x /\ x < W /\ 0 <= y /\ y < H

NonEmptyCells(g) == {i \in Cells : g[i].mat_type # MAT_EMPTY}

\* C1: within one Simulate pass no particle has its behaviour rule invoked
\* more than once, whatever the grid holds and whatever the draws are.
C1_InvokedAtMostOnce == \A i \in Cells : grid[i].runs <= 1

\* The scan stands on a cell it has not visited yet, which holds a particle
\* whose rule has already run in this pass (a swap relocated it there) and
\* which is flagged: the iteration skips it.
C1_Witness ==
    /\ pc = "simulate"
    /\ pos < N
    /\ grid[pos].mat_type # MAT_EMPTY
    /\ grid[pos].runs = 1
    /\ grid[pos].has_been_updated

\* C2: every read or write of the cell buffer made by a frame step,
\* add_particle, remove_particle or particle_line uses coordinates with
\* 0 <= x < width and 0 <= y < height.
C2_AccessesInRange == bad_access = FALSE

\* C3: remove_particle at a position outside the grid leaves every cell
\* unchanged.
C3_RemoveOutsideNoOp ==
    (last.op = "remove_particle" /\ ~InRange(last.x1, last.y1))
        => grid = before

\* C4: add_particle at a position outside the grid leaves every cell
\* unchanged, for every material.
C4_AddOutsideNoOp ==
    (last.op = "add_particle" /\ ~InRange(last.x1, last.y1))
        => grid = before

\* add_particle was called outside the grid at a position whose flat index
\* falls on an Empty cell of the buffer, with a registry material.
C4_Witness ==
    /\ last.op = "add_particle"
    /\ ~InRange(last.x1, last.y1)
    /\ last.m \in Materials
    /\ last.y1 * W + last.x1 \in Cells
    /\ before[last.y1 * W + last.x1].mat_type = MAT_EMPTY

\* C5: each position query is false outside the grid and, inside it, says
\* exactly whether the cell is Empty (is_pos_empty) or has the element class
\* (is_pos_static, is_pos_solid, is_pos_liquid, is_pos_gas).
C5_QueriesExact ==
    \A x \in XArgs, y \in YArgs :
        /\ is_pos_empty(grid, x, y)
             = (InRange(x, y) /\ CellAt(grid, x, y).mat_type = MAT_EMPTY)
        /\ is_pos_static(grid, x, y)
             = (InRange(x, y) /\ CellAt(grid, x, y).elem_type = ELEM_STATIC)
        /\ is_pos_solid(grid, x, y)
             = (InRange(x, y) /\ CellAt(grid, x, y).elem_type = ELEM_SOLID)
        /\ is_pos_liquid(grid, x, y)
             = (InRange(x, y) /\ CellAt(grid, x, y).elem_type = ELEM_LIQUID)
        /\ is_pos_gas(grid, x, y)
             = (InRange(x, y) /\ CellAt(grid, x, y).elem_type = ELEM_GAS)

\* After an add_particle, the position one past the right edge of row 0 has
\* the flat index of an Empty cell, a Static cell lies in range, and the
\* queries tell them apart.
C5_Witness ==
    /\ last.op = "add_particle"
    /\ grid[W].mat_type = MAT_EMPTY
    /\ ~is_pos_empty(grid, W, 0)
    /\ \E x \in 0 .. (W - 1), y \in 0 .. (H - 1) :
          CellAt(grid, x, y).elem_type = ELEM_STATIC
          /\ is_pos_static(grid, x, y) /\ ~is_pos_empty(grid, x, y)

\* C6: add_particle on an in-range cell that is not Empty changes nothing;
\* on an Empty in-range cell it writes the default particle of the requested
\* (registry) material, flag false, and changes no other cell.
C6_AddInRange ==
    (last.op = "add_particle" /\ InRange(last.x1, last.y1))
        => IF CellAt(before, last.x1, last.y1).mat_type # MAT_EMPTY
           THEN grid = before
           ELSE last.m \in Materials =>
                  /\ CellAt(grid, last.x1, last.y1)
                       = new_particle(last.m, NoJunk)
                  /\ CellAt(grid, last.x1, last.y1).mat_type = last.m
                  /\ ~CellAt(grid, last.x1, last.y1).has_been_updated
                  /\ \A i \in Cells :
                        i # last.y1 * W + last.x1 => grid[i] = before[i]

\* add_particle was called on an occupied in-range cell with another material.
C6_Witness ==
    /\ last.op = "add_particle"
    /\ InRange(last.x1, last.y1)
    /\ last.m \in Materials
    /\ CellAt(before, last.x1, last.y1).mat_type \in Materials \ {last.m}

\* The cells of a stroke's path.
PathCells(path) == {path[k] : k \in 1 .. Len(path)}

\* C7: a stroke with an endpoint outside the grid changes only in-grid cells
\* that lie on its rasterized segment.
C7_StrokeOnlyOnSegment ==
    (/\ last.op = "particle_line"
     /\ (~InRange(last.x1, last.y1) \/ ~InRange(last.x2, last.y2)))
        => \A i \in Cells :
              <<XOf(i), YOf(i)>> \notin PathCells(last.path)
                 => grid[i] = before[i]

Min(a, b) == IF a < b THEN a ELSE b
Max(a, b) == IF a < b THEN b ELSE a

\* C8: on an all-Empty grid a stroke of a non-Empty material between two
\* in-grid points of one row fills exactly the cells between them, both
\* included, in either drawing direction.
C8_RowStroke ==
    (/\ last.op = "particle_line"
     /\ before = EmptyGrid
     /\ last.m # MAT_EMPTY
     /\ InRange(last.x1, last.y1) /\ InRange(last.x2, last.y2)
     /\ last.y1 = last.y2)
        => \A i \in Cells :
              grid[i] = IF /\ YOf(i) = last.y1
                           /\ Min(last.x1, last.x2) <= XOf(i)
                           /\ XOf(i) <= Max(last.x1, last.x2)
                        THEN new_particle(last.m, NoJunk)
                        ELSE empty_particle

\* A whole row was drawn right to left on the Empty grid.
C8_Witness ==
    /\ last.op = "particle_line"
    /\ before = EmptyGrid
    /\ last.m = MAT_SAND
    /\ last.y1 = 0 /\ last.y2 = 0
    /\ last.x1 = W - 1 /\ last.x2 = 0
    /\ Cardinality(NonEmptyCells(grid)) = W

\* C9: for in-grid endpoints the stroke starts on the start cell, ends on
\* the end cell, visits max(|x2-x1|, |y2-y1|) + 1 cells, each 8-adjacent to
\* the one before, and its add/remove has acted on every one of them.
C9_PathShape ==
    (/\ last.op = "particle_line"
     /\ InRange(last.x1, last.y1) /\ InRange(last.x2, last.y2))
        => LET path == last.path
               n == Max(Abs(last.x2 - last.x1), Abs(last.y2 - last.y1)) + 1
           IN  /\ Len(path) = n
               /\ path[1] = <<last.x1, last.y1>>
               /\ path[n] = <<last.x2, last.y2>>
               /\ \A k \in 1 .. (n - 1) :
                     Max(Abs(path[k + 1][1] - path[k][1]),
                         Abs(path[k + 1][2] - path[k][2])) = 1
               /\ \A k \in 1 .. n :
                     LET was == CellAt(before, path[k][1], path[k][2])
                         now == CellAt(grid, path[k][1], path[k][2])
                     IN  IF last.m = MAT_EMPTY
                           THEN now.mat_type = MAT_EMPTY
                         ELSE IF was.mat_type = MAT_EMPTY
                           THEN now.mat_type = last.m
                         ELSE now = was

\* A stroke drawn down and to the left, from the right end of row 1 to the
\* left end of row 0, on the Empty grid.
C9_Witness ==
    /\ last.op = "particle_line"
    /\ last.m = MAT_SAND
    /\ before = EmptyGrid
    /\ last.x1 = W - 1 /\ last.y1 = 1 /\ last.x2 = 0 /\ last.y2 = 0
    /\ Len(last.path) = W
    /\ Cardinality(NonEmptyCells(grid)) = W

\* C10: a single Sand particle placed at (x, height-1) on an Empty grid is at
\* (x, height-1-k) after k <= height-1 steps, hence at (x, 0) after
\* height-1 steps, where it stays; exactly one cell is non-Empty throughout.
C10_SandSettles ==
    /\ Cardinality(NonEmptyCells(grid)) = 1
    /\ pc = "input" =>
          \E x \in 0 .. (W - 1) :
             /\ CellAt(grid, x, (H - 1) - Min(frame, H - 1)).mat_type
                  = MAT_SAND
             /\ CellAt(before, x, (H - 1) - Min(Max(frame - 1, 0), H - 1))
                  .mat_type = MAT_SAND

\* The sand has reached the bottom row after exactly H - 1 frames.
C10_Witness ==
    /\ pc = "input"
    /\ frame = H - 1
    /\ \E x \in 0 .. (W - 1) : CellAt(grid, x, 0).mat_type = MAT_SAND

\* The Simulate scan stands on an unflagged cell holding material m: the
\* next iteration invokes that particle's rule.
RuleRuns(m) ==
    /\ pc = "simulate"
    /\ pos < N
    /\ ~grid[pos].has_been_updated
    /\ grid[pos].mat_type = m

\* The Sand at (x, y) has an in-range cell straight below that is neither
\* Empty, Liquid nor Gas, and Empty cells below-left and below-right.
SandBlockedOpenBothSides(g, x, y) ==
    /\ InRange(x - 1, y - 1) /\ InRange(x + 1, y - 1)
    /\ CellAt(g, x, y - 1).elem_type
          \notin {ELEM_EMPTY, ELEM_LIQUID, ELEM_GAS}
    /\ CellAt(g, x - 1, y - 1).mat_type = MAT_EMPTY
    /\ CellAt(g, x + 1, y - 1).mat_type = MAT_EMPTY

\* C11 as stated: when a Sand particle's rule runs with its straight-below
\* cell blocked and both below-left and below-right Empty, the Sand moves to
\* below-left, for every kind of blocker.
C11_SandLeftAnyBlocker ==
    (RuleRuns(MAT_SAND) /\ SandBlockedOpenBothSides(grid, XOf(pos), YOf(pos)))
      => \A g \in RuleResults(grid, pos) :
            /\ CellAt(g, XOf(pos) - 1, YOf(pos) - 1).mat_type = MAT_SAND
            /\ g[pos].mat_type = MAT_EMPTY

\* C11 amended: in that situation the Sand moves to below-left when the
\* blocker is not Static; when the blocker is Static (Wall, Wood, Fire ignited
\* from Wood) the Sand stays where it is and no cell changes material.
C11_SandLeftUnlessStatic ==
    (RuleRuns(MAT_SAND) /\ SandBlockedOpenBothSides(grid, XOf(pos), YOf(pos)))
      => \A g \in RuleResults(grid, pos) :
            IF CellAt(grid, XOf(pos), YOf(pos) - 1).elem_type = ELEM_STATIC
            THEN \A i \in Cells : g[i].mat_type = grid[i].mat_type
            ELSE /\ CellAt(g, XOf(pos) - 1, YOf(pos) - 1).mat_type = MAT_SAND
                 /\ CellAt(g, XOf(pos) + 1, YOf(pos) - 1).mat_type
                      = MAT_EMPTY
                 /\ g[pos].mat_type = MAT_EMPTY
                 /\ CellAt(g, XOf(pos), YOf(pos) - 1).mat_type
                      = CellAt(grid, XOf(pos), YOf(pos) - 1).mat_type

\* The scan has just run the rule of a Sand that stood on a Solid blocker
\* with both lower diagonals Empty: the Sand is now below-left.
C11_Witness ==
    /\ pc = "simulate"
    /\ pos >= 1
    /\ SandBlockedOpenBothSides(before, XOf(pos - 1), YOf(pos - 1))
    /\ before[pos - 1].mat_type = MAT_SAND
    /\ CellAt(before, XOf(pos - 1), YOf(pos - 1) - 1).elem_type = ELEM_SOLID
    /\ CellAt(grid, XOf(pos - 1), YOf(pos - 1) - 1).elem_type = ELEM_SOLID
    /\ grid[pos - 1].mat_type = MAT_EMPTY
    /\ CellAt(grid, XOf(pos - 1) - 1, YOf(pos - 1) - 1).mat_type = MAT_SAND

\* C12: across one frame step the number of non-Empty cells never
\* increases, whatever the grid holds and whatever the draws are.
C12_CountNeverIncreases ==
    last.op = "step"
      => Cardinality(NonEmptyCells(grid)) <= Cardinality(NonEmptyCells(before))

\* A frame has completed in which an expired Fire was replaced by Smoke in
\* its own cell and the other particle is still there.
C12_Witness ==
    /\ pc = "input"
    /\ last.op = "step"
    /\ \E i \in Cells : /\ before[i].mat_type = MAT_FIRE
                         /\ grid[i].mat_type = MAT_SMOKE
    /\ Cardinality(NonEmptyCells(grid)) = Cardinality(NonEmptyCells(before))
    /\ Cardinality(NonEmptyCells(grid)) >= 2

\* C13: stepping a grid whose cells are all Empty any number of times
\* leaves every cell Empty, and after each step every updated flag is false
\* again (the grid is the grid new_grid returned).
C13_EmptyStaysEmpty ==
    /\ \A i \in Cells : grid[i].mat_type = MAT_EMPTY
    /\ pc = "input" => grid = EmptyGrid

\* The all-Empty grid has been stepped MaxIdleFrames times and is the grid
\* new_grid returned.
C13_Witness ==
    /\ pc = "input"
    /\ last.op = "step"
    /\ frame = MaxIdleFrames
    /\ grid = EmptyGrid

\* A cell holding a defined material with initialized fields.
WellFormed(p) ==
    /\ p.mat_type \in MAT_EMPTY .. MAT_FLAME
    /\ p.elem_type \in ELEM_EMPTY .. ELEM_GAS
    /\ p.life_time \in Int
    /\ p.update_func \in RuleNames

\* C14: after grid creation and after any sequence of steps, strokes,
\* add_particle, remove_particle and clear_grid calls, the grid has exactly
\* width*height cells and every cell holds one of the 9 materials with
\* initialized class, life_time and behaviour rule.
C14_CellsWellFormed ==
    /\ DOMAIN grid = Cells
    /\ \A i \in Cells : WellFormed(grid[i])

\* C17: add_particle on an Empty in-range cell with a material that has no
\* registry entry (MAT_EMPTY, or a value outside the defined materials)
\* leaves the cell holding the default Empty particle: material and class
\* Empty, life_time 0, the empty behaviour rule.
C17_RegistryMissIsEmpty ==
    (/\ last.op = "add_particle"
     /\ InRange(last.x1, last.y1)
     /\ CellAt(before, last.x1, last.y1).mat_type = MAT_EMPTY
     /\ last.m \notin Materials)
      => /\ CellAt(grid, last.x1, last.y1).mat_type = MAT_EMPTY
         /\ CellAt(grid, last.x1, last.y1).elem_type = ELEM_EMPTY
         /\ CellAt(grid, last.x1, last.y1).life_time = 0
         /\ CellAt(grid, last.x1, last.y1).update_func = "update_empty"

\* next_material applied k times.
RECURSIVE NextTimes(_, _)
NextTimes(m, k) == IF k = 0 THEN m ELSE NextTimes(next_material(m), k - 1)

\* C15: on the 8 non-Empty materials next_material and prev_material are
\* mutually inverse, never return Empty or a value outside the enumeration,
\* follow declaration order with Flame -> Sand and Sand -> Flame at the
\* ends, and next_material applied 8 times returns the starting material.
\* The selected material runs over all 8 and each key press installs the
\* value stated.
C15_SelectorCycle ==
    /\ curr_mat \in Materials
    /\ next_material(curr_mat) \in Materials
    /\ prev_material(curr_mat) \in Materials
    /\ prev_material(next_material(curr_mat)) = curr_mat
    /\ next_material(prev_material(curr_mat)) = curr_mat
    /\ next_material(curr_mat)
         = (IF curr_mat = MAT_FLAME THEN MAT_SAND ELSE curr_mat + 1)
    /\ prev_material(curr_mat)
         = (IF curr_mat = MAT_SAND THEN MAT_FLAME ELSE curr_mat - 1)
    /\ NextTimes(curr_mat, MAT_COUNT - 1) = curr_mat
    /\ last.op = "next_material"
         => curr_mat = (IF last.m = MAT_FLAME THEN MAT_SAND ELSE last.m + 1)
    /\ last.op = "prev_material"
         => curr_mat = (IF last.m = MAT_SAND THEN MAT_FLAME ELSE last.m - 1)

\* KEY_RIGHT has just been pressed with Flame selected, after the selection
\* went through all 8 materials: it wrapped to Sand.
C15_Witness ==
    /\ last.op = "next_material"
    /\ last.m = MAT_FLAME
    /\ curr_mat = MAT_SAND
    /\ frame >= MAT_FLAME - MAT_SAND

\* The rolls the 8 ignition blocks of the rule at (x, y) take from one
\* sequence of draws: the j-th block that reads a burning neighbour consumes
\* the j-th draw.
RollsFrom(stream, g, x, y, wild) ==
    LET b == burning_slots(g, x, y, wild)
    IN  [k \in 1..8 |->
           IF k \in b THEN stream[Cardinality({j \in b : j <= k})] ELSE 0]

\* C16: the result of a step depends on nothing but the in-grid cell
\* contents and the draws: from the same grid, with the same decay draw, the
\* same smoke roll and the same sequence of ignition draws, the rule of the
\* scanned cell leaves the same grid whatever the memory outside the cell
\* buffer holds.
C16_StepDependsOnGridAndDraws ==
    (pc = "simulate" /\ pos < N /\ ~grid[pos].has_been_updated)
      => \A d \in DecayOf(grid[pos]) :
            \A r \in SmokeRollOf(grid[pos], d),
               stream \in [1..8 -> IgniteRollOf(grid[pos])],
               w1 \in WildOf(grid[pos], XOf(pos), YOf(pos)),
               w2 \in WildOf(grid[pos], XOf(pos), YOf(pos)) :
               invoke(grid, XOf(pos), YOf(pos), d, r, w1,
                      RollsFrom(stream, grid, XOf(pos), YOf(pos), w1))
                 = invoke(grid, XOf(pos), YOf(pos), d, r, w2,
                          RollsFrom(stream, grid, XOf(pos), YOf(pos), w2))

\* The cells of g holding Oil or Wood.
FuelCells(g) == {i \in Cells : g[i].mat_type \in {MAT_OIL, MAT_WOOD}}

\* The in-range neighbours of (x, y) that hold Fire or Flame in g.
BurningNeighbours(g, x, y) ==
    {k \in 1..8 :
        /\ InRange(Neighbours(x, y)[k][1], Neighbours(x, y)[k][2])
        /\ CellAt(g, Neighbours(x, y)[k][1], Neighbours(x, y)[k][2]).mat_type
              \in {MAT_FIRE, MAT_FLAME}}

\* C18: a Wood or Oil cell is transformed into Fire only if, at the moment
\* its rule runs, at least one of its 8 neighbouring cells inside the grid
\* holds Fire or Flame; in particular a cell on the left or right edge is
\* never ignited by a burning cell on the opposite edge of an adjacent row.
\* Stated for the runs in which the memory outside the cell buffer holds
\* nothing burning.
C18_IgnitedOnlyByNeighbour ==
    (pc = "simulate" /\ pos < N /\ ~grid[pos].has_been_updated
     /\ grid[pos].mat_type \in {MAT_OIL, MAT_WOOD})
      => \A rolls \in RollsOf(grid, grid[pos], XOf(pos), YOf(pos),
                               empty_particle) :
            Cardinality(FuelCells(invoke(grid, XOf(pos), YOf(pos), 0, 0,
                                         empty_particle, rolls)))
                < Cardinality(FuelCells(grid))
              => BurningNeighbours(grid, XOf(pos), YOf(pos)) # {}

\* The cells that hold Fire in g2 and did not in g1.
NewFire(g1, g2) ==
    {j \in Cells : g2[j].mat_type = MAT_FIRE /\ g1[j].mat_type # MAT_FIRE}

\* C19: when an Oil or Wood cell ignites, the resulting particle has
\* material Fire with Fire's default life_time and behaviour rule, keeps the
\* velocity the Oil or Wood had, and has element class Liquid if it was Oil
\* and Static if it was Wood, however many burning neighbours there are.
C19_IgnitedParticle ==
    (pc = "simulate" /\ pos < N /\ ~grid[pos].has_been_updated
     /\ grid[pos].mat_type \in {MAT_OIL, MAT_WOOD})
      => \A g \in RuleResults(grid, pos) :
            Cardinality(FuelCells(g)) < Cardinality(FuelCells(grid))
              => /\ Cardinality(NewFire(grid, g)) = 1
                 /\ \A j \in NewFire(grid, g) :
                       /\ g[j].life_time = LIFE_FIRE
                       /\ g[j].update_func = "update_fire"
                       /\ g[j].velocity = grid[pos].velocity
                       /\ g[j].elem_type
                            = (IF grid[pos].mat_type = MAT_OIL
                               THEN ELEM_LIQUID ELSE ELEM_STATIC)

\* An Oil with two Fire neighbours inside the grid has ignited in this scan
\* and is now Liquid-classed Fire with Fire's full life_time.
C19_Witness ==
    /\ pc = "simulate"
    /\ \E i \in Cells :
          /\ before[i].mat_type = MAT_OIL
          /\ Cardinality({k \in BurningNeighbours(before, XOf(i), YOf(i)) :
                CellAt(before, Neighbours(XOf(i), YOf(i))[k][1],
                       Neighbours(XOf(i), YOf(i))[k][2]).mat_type = MAT_FIRE})
               >= 2
    /\ FuelCells(grid) = {}
    /\ \E j \in Cells : /\ grid[j].mat_type = MAT_FIRE
                         /\ grid[j].elem_type = ELEM_LIQUID
                         /\ grid[j].life_time = LIFE_FIRE
                         /\ grid[j].has_been_updated

\* C20: a Solid-classed Fire particle that is not on the bottom row and has
\* not expired moves like Sand in a step: after its rule has run, every cell
\* holds the material it would hold had update_sand moved the particle.
C20_SolidFireFalls ==
    (RuleRuns(MAT_FIRE) /\ grid[pos].elem_type = ELEM_SOLID
     /\ YOf(pos) > 0 /\ grid[pos].life_time > DECAY_FIRE)
      => \A g \in RuleResults(grid, pos) :
            \A i \in Cells :
               g[i].mat_type
                 = update_sand(grid, XOf(pos), YOf(pos))[i].mat_type

\* C21: when the rule of a Liquid particle (Water or Oil) runs and its
\* straight-below cell holds a Gas, the particle swaps with that cell; and
\* when Water's rule runs with Oil straight below, the Water swaps with the
\* Oil.  (An Oil that ignites in the same rule invocation counts as the
\* particle too.)
C21_LiquidSinksThroughGas ==
    (pc = "simulate" /\ pos < N /\ ~grid[pos].has_been_updated
     /\ YOf(pos) >= 1
     /\ \/ /\ grid[pos].mat_type \in {MAT_WATER, MAT_OIL}
           /\ grid[pos - W].elem_type = ELEM_GAS
        \/ /\ grid[pos].mat_type = MAT_WATER
           /\ grid[pos - W].mat_type = MAT_OIL)
      => \A g \in RuleResults(grid, pos) :
            /\ g[pos - W].mat_type \in {grid[pos].mat_type, MAT_FIRE}
            /\ g[pos].mat_type = grid[pos - W].mat_type

\* The in-range cells diagonally adjacent to (x, y) in row y + dy.
Diagonals(x, y, dy) ==
    {Index(cx, y + dy) : cx \in {c \in {x - 1, x + 1} : InRange(c, y + dy)}}

\* C22: a Sand, Water or Oil particle whose straight-below cell is Static
\* never moves to below-left or below-right when its rule runs, and a Smoke
\* or Flame particle whose straight-above cell is Static never moves to
\* above-left or above-right, whatever the diagonal cells hold: the rule
\* leaves the diagonal cells as they are.
C22_StaticVetoesDiagonal ==
    (pc = "simulate" /\ pos < N /\ ~grid[pos].has_been_updated)
      => /\ (/\ grid[pos].mat_type \in {MAT_SAND, MAT_WATER, MAT_OIL}
             /\ YOf(pos) >= 1
             /\ grid[pos - W].elem_type = ELEM_STATIC)
              => \A g \in RuleResults(grid, pos) :
                    \A j \in Diagonals(XOf(pos), YOf(pos), -1) :
                       g[j] = grid[j]
         /\ (/\ grid[pos].mat_type \in {MAT_SMOKE, MAT_FLAME}
             /\ YOf(pos) + 1 < H
             /\ grid[pos + W].elem_type = ELEM_STATIC)
              => \A g \in RuleResults(grid, pos) :
                    \A j \in Diagonals(XOf(pos), YOf(pos), 1) :
                       g[j] = grid[j]

\* The rule of a Water standing on a Static cell, with an Empty cell
\* below-left, has just run: the Water went sideways, not below-left.
C22_Witness ==
    /\ pc = "simulate"
    /\ pos >= 1
    /\ before[pos - 1].mat_type = MAT_WATER
    /\ XOf(pos - 1) >= 1 /\ YOf(pos - 1) >= 1
    /\ before[pos - 1 - W].elem_type = ELEM_STATIC
    /\ before[pos - 2 - W].mat_type = MAT_EMPTY
    /\ grid[pos - 2 - W].mat_type = MAT_EMPTY
    /\ grid[pos - 2].mat_type = MAT_WATER
    /\ grid[pos - 1].mat_type = MAT_EMPTY

\* The candidate destinations of the rule of material m at (x, y), in the
\* fixed order: straight-vertical, vertical-left, vertical-right, then (for
\* liquids and gases) left, right.  Vertical is down for Sand, Water and Oil
\* and up for Smoke and Flame.
Candidates(m, x, y) ==
    LET v == IF m \in {MAT_SMOKE, MAT_FLAME} THEN y + 1 ELSE y - 1
        vertical == << <<x, v>>, <<x - 1, v>>, <<x + 1, v>> >>
    IN  IF m = MAT_SAND THEN vertical
        ELSE vertical \o << <<x - 1, y>>, <<x + 1, y>> >>

\* Whether the in-range cell c of g is a destination the rule of material m
\* moves into: Empty, Liquid or Gas for Sand; Empty, Gas or Oil for Water;
\* Empty or Gas for Oil; Empty for Smoke and Flame.
Accepts(m, c) ==
    \/ c.mat_type = MAT_EMPTY
    \/ m = MAT_SAND /\ c.elem_type \in {ELEM_LIQUID, ELEM_GAS}
    \/ m = MAT_WATER /\ (c.elem_type = ELEM_GAS \/ c.mat_type = MAT_OIL)
    \/ m = MAT_OIL /\ c.elem_type = ELEM_GAS

\* Candidate k of the rule of material m at (x, y) qualifies in g: it lies in
\* the grid, holds an accepted destination and, for the two diagonal
\* candidates, the straight-vertical cell is not Static.
Qualifies(g, m, x, y, k) ==
    LET c == Candidates(m, x, y)[k]
        v == Candidates(m, x, y)[1]
    IN  /\ InRange(c[1], c[2])
        /\ Accepts(m, CellAt(g, c[1], c[2]))
        /\ k \in {2, 3}
             => ~(InRange(v[1], v[2])
                  /\ CellAt(g, v[1], v[2]).elem_type = ELEM_STATIC)

\* The rule run at cell i of g1 left g2 with the particle (of material m, or
\* the Fire an Oil ignited into) moved to candidate k.
MovedTo(g1, g2, i, m, k) ==
    LET c  == Candidates(m, XOf(i), YOf(i))[k]
        ms == IF m = MAT_OIL THEN {MAT_OIL, MAT_FIRE} ELSE {m}
    IN  /\ InRange(c[1], c[2])
        /\ CellAt(g2, c[1], c[2]).mat_type \in ms
        /\ CellAt(g1, c[1], c[2]).mat_type \notin ms
        /\ g2[i].mat_type = CellAt(g1, c[1], c[2]).mat_type

\* C23: whenever a Sand, Water, Oil, Smoke or Flame particle moves by its
\* own rule, its destination is the first qualifying candidate in the fixed
\* order: it never moves diagonally or sideways when the straight-vertical
\* cell qualifies, and never to the right-hand candidate when the left-hand
\* candidate of the same tier qualifies.
C23_FirstQualifyingCandidate ==
    (pc = "simulate" /\ pos < N /\ ~grid[pos].has_been_updated
     /\ grid[pos].mat_type
           \in {MAT_SAND, MAT_WATER, MAT_OIL, MAT_SMOKE, MAT_FLAME})
      => \A g \in RuleResults(grid, pos) :
            \A k \in 1 .. Len(Candidates(grid[pos].mat_type,
                                          XOf(pos), YOf(pos))) :
               MovedTo(grid, g, pos, grid[pos].mat_type, k)
                 => /\ Qualifies(grid, grid[pos].mat_type,
                                 XOf(pos), YOf(pos), k)
                    /\ \A j \in 1 .. (k - 1) :
                          ~Qualifies(grid, grid[pos].mat_type,
                                     XOf(pos), YOf(pos), j)

\* C24: at every frame boundary, also right after a stroke or clear_grid,
\* the has_been_updated flag of every cell is false.
C24_FlagsClearAtFrameBoundary ==
    pc = "input" => \A i \in Cells : ~grid[i].has_been_updated

\* C24 witness: a frame in which a stroked Sand particle fell one row (its
\* swap flagged both cells) has ended.
C24_Witness ==
    /\ pc = "input"
    /\ last.op = "step"
    /\ \E i \in Cells :
          /\ YOf(i) >= 1
          /\ before[i].mat_type = MAT_SAND
          /\ before[i - W].mat_type = MAT_EMPTY
          /\ grid[i].mat_type = MAT_EMPTY
          /\ grid[i - W].mat_type = MAT_SAND

\* The materials with a decay budget.
Decaying == {MAT_SMOKE, MAT_FIRE, MAT_FLAME}

\* Cell j of g2, the grid a rule run at cell i of g1 left, holds a particle
\* whose life_time is no larger than it was in g1.  A swap exchanges two
\* different materials, so the particle at j is the one g1 held at j when
\* the material is the same, the rule's own particle when j is another cell,
\* and otherwise a particle a swap brought from a neighbour into i.
LifeNotRaised(g1, g2, i, j) ==
    IF g1[j].mat_type = g2[j].mat_type
      THEN g2[j].life_time <= g1[j].life_time
    ELSE IF j # i
      THEN g1[i].mat_type = g2[j].mat_type
           /\ g2[j].life_time <= g1[i].life_time
    ELSE \E c \in Cells \ {i} :
            /\ g1[c].mat_type = g2[j].mat_type
            /\ g2[c].mat_type # g1[c].mat_type
            /\ g2[j].life_time <= g1[c].life_time

\* Cell j of g2 holds a particle the rule run at cell i of g1 constructed:
\* the Smoke of an expired Fire or the Fire of an ignited Oil or Wood, with
\* the registry's full life_time.
FreshParticle(g1, g2, i, j) ==
    \/ /\ j = i
       /\ g1[i].mat_type = MAT_FIRE
       /\ g2[j].mat_type = MAT_SMOKE
       /\ g2[j].life_time = LIFE_SMOKE
    \/ /\ g1[i].mat_type \in {MAT_OIL, MAT_WOOD}
       /\ g2[j].mat_type = MAT_FIRE
       /\ g2[j].life_time = LIFE_FIRE

\* C25: at every frame boundary every Smoke, Fire and Flame cell has
\* life_time > 0; the rule run of a particle leaves no decaying particle
\* with life_time <= 0 (an expired one is replaced in that same run by Empty
\* or, for Fire, by a fresh Smoke with Smoke's full life_time), and the
\* life_time of a particle never increases.
C25_DecayingParticlesAlive ==
    /\ pc = "input"
         => \A i \in Cells :
               grid[i].mat_type \in Decaying => grid[i].life_time > 0
    /\ (pc = "simulate" /\ pos < N /\ ~grid[pos].has_been_updated
        /\ grid[pos].mat_type # MAT_EMPTY)
         => \A g \in RuleResults(grid, pos) :
               \A j \in Cells :
                  g[j].mat_type \in Decaying
                    => /\ g[j].life_time > 0
                       /\ \/ LifeNotRaised(grid, g, pos, j)
                          \/ FreshParticle(grid, g, pos, j)

\* C25 witness: a frame has ended in which a Fire expired and was replaced
\* by a fresh Smoke.
C25_Witness ==
    /\ pc = "input"
    /\ last.op = "step"
    /\ \E i \in Cells :
          /\ before[i].mat_type = MAT_FIRE
          /\ before[i].life_time = OldFire.life_time
          /\ grid[i].mat_type = MAT_SMOKE
          /\ grid[i].life_time = LIFE_SMOKE

\* Grid g2 holds every Static-classed particle of g1 at the cell it had in
\* g1: the Wall cells are the same, a Wood cell holds Wood or the
\* Static-classed Fire it burned into, a Static-classed Fire cell holds that
\* Fire unless it expired (the cell is then no longer Static), and no cell
\* became Static otherwise.
StaticsInPlace(g1, g2) ==
    \A j \in Cells :
       /\ (g1[j].mat_type = MAT_WALL) <=> (g2[j].mat_type = MAT_WALL)
       /\ g1[j].mat_type = MAT_WOOD
            => \/ g2[j].mat_type = MAT_WOOD
               \/ g2[j].mat_type = MAT_FIRE /\ g2[j].elem_type = ELEM_STATIC
       /\ g2[j].elem_type = ELEM_STATIC
            => /\ g1[j].elem_type = ELEM_STATIC
               /\ g2[j].mat_type = MAT_WOOD => g1[j].mat_type = MAT_WOOD
               /\ g2[j].mat_type = MAT_FIRE
                    => g1[j].mat_type \in {MAT_WOOD, MAT_FIRE}

\* C26: with no add, remove or clear, the set of cells holding Wall is
\* constant and a cell holding Wood still holds Wood or holds the Fire it
\* burned into at that same position, after every rule run of the frame and
\* at its end: no Static-classed particle is swapped to another cell.
C26_StaticsNeverMove == last.op = "step" => StaticsInPlace(before, grid)

\* C26 witness: a frame has ended in which a Wood burned into Fire where it
\* stood and a second particle changed its cell.
C26_Witness ==
    /\ pc = "input"
    /\ last.op = "step"
    /\ \E i \in Cells :
          /\ before[i].mat_type = MAT_WOOD
          /\ grid[i].mat_type = MAT_FIRE
          /\ grid[i].elem_type = ELEM_STATIC
    /\ \E j \in Cells :
          /\ before[j].mat_type \notin {MAT_EMPTY, MAT_WOOD}
          /\ grid[j].mat_type = MAT_EMPTY

\* The number of cells of g holding material m.
CountOf(g, m) == Cardinality({i \in Cells : g[i].mat_type = m})

\* C27: a frame step preserves the number of Sand cells, of Water cells and
\* of Wall cells, at every point of the scan and for every outcome of the
\* random draws.
C27_SandWaterWallConserved ==
    last.op = "step"
      => \A m \in {MAT_SAND, MAT_WATER, MAT_WALL} :
            CountOf(grid, m) = CountOf(before, m)

\* C27 witness: a frame has ended in which a Sand sank through the Water
\* below it.
C27_Witness ==
    /\ pc = "input"
    /\ last.op = "step"
    /\ \E i \in Cells :
          /\ YOf(i) >= 1
          /\ before[i].mat_type = MAT_SAND
          /\ before[i - W].mat_type = MAT_WATER
          /\ grid[i - W].mat_type = MAT_SAND
          /\ CountOf(grid, MAT_WATER) = 1

\* The cells of g holding material m.
CellsOf(g, m) == {i \in Cells : g[i].mat_type = m}

\* Cells i and j are at most one column and one row apart.
Adjacent(i, j) ==
    /\ XOf(i) - XOf(j) \in -1 .. 1
    /\ YOf(i) - YOf(j) \in -1 .. 1

\* A step from g creates no particle of material m: Smoke comes only from an
\* expired Fire and Fire only from an ignited Oil or Wood.
NotCreated(g, m) ==
    /\ m = MAT_SMOKE => CellsOf(g, MAT_FIRE) = {}
    /\ m = MAT_FIRE => CellsOf(g, MAT_OIL) \cup CellsOf(g, MAT_WOOD) = {}

\* C28: across one frame step no particle ends more than one cell away (in
\* x and in y) from the cell it had at the start of the step, particles
\* displaced by other particles' swaps included.  A particle is followed
\* when it is the only one of its material and the step creates none.
C28_EndsWithinOneCell ==
    last.op = "step"
      => \A m \in Materials : \A i \in Cells, j \in Cells :
            (NotCreated(before, m)
             /\ CellsOf(before, m) = {i} /\ CellsOf(grid, m) = {j})
              => Adjacent(i, j)

\* C28, amended: the rule run of a particle moves no particle by more than
\* one cell: it changes its own cell and at most one of the 8 cells around
\* it and leaves every other cell as it was.  (Over a frame a particle that
\* moved by its own rule can be displaced further by the swaps of particles
\* scanned after it.)
C28_RuleMovesOneCell ==
    (pc = "simulate" /\ pos < N /\ ~grid[pos].has_been_updated
     /\ grid[pos].mat_type # MAT_EMPTY)
      => \A g \in RuleResults(grid, pos) :
            LET changed == {j \in Cells \ {pos} : g[j] # grid[j]}
            IN  /\ Cardinality(changed) <= 1
                /\ \A c \in changed : Adjacent(pos, c)

\* C28 witness: a Smoke that rose one row by its own rule has been swapped
\* one row further up by the Sand that fell into its cell.
C28_Witness ==
    /\ last.op = "step"
    /\ \E i \in Cells :
          /\ YOf(i) + 2 < H
          /\ before[i].mat_type = MAT_SMOKE
          /\ before[i + 2 * W].mat_type = MAT_SAND
          /\ grid[i + 2 * W].mat_type = MAT_SMOKE
          /\ grid[i + W].mat_type = MAT_SAND

\* |x2 - x1| + |y2 - y1| + 1 on the endpoints of a stroke after x values
\* above the width and y values above the height are brought down to them.
StrokeBound(x1, y1, x2, y2) ==
    LET lim(v, top) == IF v > top THEN top ELSE v
    IN  Abs(lim(x2, W) - lim(x1, W)) + Abs(lim(y2, H) - lim(y1, H)) + 1

\* C29: particle_line terminates for every pair of endpoints (inside the
\* grid, beyond width or height, or negative) and either target, after at
\* most |x2 - x1| + |y2 - y1| + 1 add/remove applications measured on the
\* clamped endpoints.
C29_StrokeTerminates ==
    last.op = "particle_line"
      => /\ Len(last.path) <= LineFuel
         /\ Len(last.path)
              <= StrokeBound(last.x1, last.y1, last.x2, last.y2)

\* C29 witness: a stroke from beyond the right edge to left of the grid along
\* one row has applied its target to W + 2 cells, the bound itself.
C29_Witness ==
    /\ last.op = "particle_line"
    /\ last.x1 = W + 1
    /\ last.x2 = -1
    /\ last.y1 = last.y2
    /\ Len(last.path) = W + 2
    /\ StrokeBound(last.x1, last.y1, last.x2, last.y2) = W + 2

\* No cell holds a Smoke, Fire or Flame.
NoDecaying == \A i \in Cells : grid[i].mat_type \notin Decaying

\* C30 as stated: with no add calls and decay draws that are positive again
\* and again, the grid eventually holds no Smoke, Fire or Flame: no decaying
\* particle is skipped by the scan in every frame forever.  (A positive draw
\* far smaller than the life_time leaves the life_time as it was, so draws
\* that are positive again and again need never end a Flame of life_time
\* 0.25f.)
C30_DecayingEventuallyGone == <>NoDecaying

\* C30: with no add calls, if again and again a decay draw is made that
\* lowers the life_time of the particle it is made for, the grid eventually
\* holds no Smoke, Fire or Flame.
C30_LoweredEventuallyGone == SF_vars(LoweringDecay) => <>NoDecaying

\* C30 witness: a frame has ended that began with a Flame, a Smoke or both
\* and left no decaying particle: each was removed by its rule when its
\* life_time fell to 0 or below.
C30_Witness ==
    /\ pc = "input"
    /\ last.op = "step"
    /\ \E i \in Cells : before[i].mat_type \in Decaying
    /\ NoDecaying

\* The grid whose only particle is a Water at column x of the bottom row.
WaterOnFloor(x) == Single(MAT_WATER, Index(x, 0))

\* C31: a single Water particle on the bottom row of an otherwise Empty
\* grid never comes to rest: every frame moves it one cell, to the left
\* until it is at x = 0 and from there to x = 1, so it is at x = 0 and at
\* x = 1 again and again and no frame leaves the grid as it was.
C31_WaterNeverRests ==
    (\E x \in 0 .. (W - 1) : grid = WaterOnFloor(x))
      => /\ [](pc = "input" /\ last.op = "step"
                => \E x \in 0 .. (W - 1) :
                      /\ before = WaterOnFloor(x)
                      /\ grid = WaterOnFloor(IF x = 0 THEN 1 ELSE x - 1))
         /\ []<>(grid[Index(0, 0)].mat_type = MAT_WATER)
         /\ []<>(grid[Index(1, 0)].mat_type = MAT_WATER)

\* C31 witness: a frame has ended that took the only particle, a Water in
\* the left corner of the bottom row, one cell to the right.
C31_Witness ==
    /\ pc = "input"
    /\ last.op = "step"
    /\ before = WaterOnFloor(0)
    /\ grid = WaterOnFloor(1)

=============================================================================
